---- MODULE Spec2Model ----
(***************************************************************************)
(* Model of the summarization subsystem of another_rss_telegram_bot        *)
(* (src/src/summarize.py): Summarizer.summarize, bedrock_summarize,        *)
(* fallback_summarize, _generate_why_it_matters and format_summary.        *)
(*                                                                         *)
(* A Python str is a sequence of characters; a character is a one-element  *)
(* string, except the non-ASCII ones, which are written "BULLET" (U+2022), *)
(* "e_acute", "o_grave", "u_grave", "a_grave" and their upper-case forms   *)
(* "E_ACUTE", "O_GRAVE", "U_GRAVE", "A_GRAVE".                             *)
(***************************************************************************)
EXTENDS Integers, Sequences, FiniteSets, TLC

\* ---------------------------------------------------------------------------
\* Python string primitives used by summarize.py
\* ---------------------------------------------------------------------------

\* The characters str.strip(), str.split() and the regex \s treat as whitespace.
Whitespace == {" ", "\n", "\t"}

UpperChars ==
    <<"A","B","C","D","E","F","G","H","I","J","K","L","M","N","O","P","Q","R","S","T","U","V",
      "W","X","Y","Z","E_ACUTE","U_GRAVE","O_GRAVE","A_GRAVE">>

LowerChars ==
    <<"a","b","c","d","e","f","g","h","i","j","k","l","m","n","o","p","q","r","s","t","u","v",
      "w","x","y","z","e_acute","u_grave","o_grave","a_grave">>

\* str.lower() on one character.
LowerChar(c) ==
    IF \E i \in 1..Len(UpperChars) : UpperChars[i] = c
    THEN LowerChars[CHOOSE i \in 1..Len(UpperChars) : UpperChars[i] = c]
    ELSE c

\* str.lower()
Lower(s) == [i \in 1..Len(s) |-> LowerChar(s[i])]

\* str.startswith(p)
StartsWith(s, p) == Len(p) <= Len(s) /\ SubSeq(s, 1, Len(p)) = p

\* str.endswith(p)
EndsWith(s, p) == Len(p) <= Len(s) /\ SubSeq(s, Len(s) - Len(p) + 1, Len(s)) = p

\* `sub in s`
Contains(s, sub) ==
    \E i \in 1..(Len(s) - Len(sub) + 1) : SubSeq(s, i, i + Len(sub) - 1) = sub

\* The least index j >= i with s[j] in set, or Len(s) + 1.
NextIn(s, i, set) ==
    CHOOSE j \in i..(Len(s) + 1) :
        /\ j = Len(s) + 1 \/ s[j] \in set
        /\ \A k \in i..(j - 1) : s[k] \notin set

\* The least index j >= i with s[j] not in set, or Len(s) + 1.
NextNotIn(s, i, set) ==
    CHOOSE j \in i..(Len(s) + 1) :
        /\ j = Len(s) + 1 \/ s[j] \notin set
        /\ \A k \in i..(j - 1) : s[k] \in set

\* The greatest index j <= i with s[j] not in set, or 0.
PrevNotIn(s, i, set) ==
    CHOOSE j \in 0..i :
        /\ j = 0 \/ s[j] \notin set
        /\ \A k \in (j + 1)..i : s[k] \in set

\* str.strip()
Strip(s) == SubSeq(s, NextNotIn(s, 1, Whitespace), PrevNotIn(s, Len(s), Whitespace))

\* The indices of s, in order.
Indices(s) == [i \in 1..Len(s) |-> i]

\* str.split(sep) for a one-character sep: the pieces between the occurrences.
SplitEach(s, sep) ==
    LET IsSep(i) == s[i] = sep
        seps == SelectSeq(Indices(s), IsSep)
    IN  [k \in 1..(Len(seps) + 1) |->
            SubSeq(s, IF k = 1 THEN 1 ELSE seps[k - 1] + 1,
                      IF k > Len(seps) THEN Len(s) ELSE seps[k] - 1)]

\* re.split(r"[set]+", s): the pieces between maximal runs of characters of
\* set; an empty piece leads when s is empty or starts with a run, and trails
\* when s ends with one.
SplitRuns(s, set) ==
    LET IsStart(i) == s[i] \notin set /\ (i = 1 \/ s[i - 1] \in set)
        starts == SelectSeq(Indices(s), IsStart)
        lead  == IF s = << >> \/ s[1] \in set THEN << << >> >> ELSE << >>
        trail == IF s # << >> /\ s[Len(s)] \in set THEN << << >> >> ELSE << >>
    IN  lead
        \o [k \in 1..Len(starts) |-> SubSeq(s, starts[k], NextIn(s, starts[k], set) - 1)]
        \o trail

NonEmpty(w) == w # << >>

\* str.split() with no argument: the maximal runs of non-whitespace.
Words(s) == SelectSeq(SplitRuns(s, Whitespace), NonEmpty)

\* sep.join(parts[lo..hi])
RECURSIVE JoinRange(_, _, _, _)
JoinRange(parts, lo, hi, sep) ==
    IF lo > hi THEN << >>
    ELSE IF lo = hi THEN parts[lo]
    ELSE LET mid == (lo + hi) \div 2
         IN  JoinRange(parts, lo, mid, sep) \o sep \o JoinRange(parts, mid + 1, hi, sep)

\* sep.join(parts)
Join(parts, sep) == JoinRange(parts, 1, Len(parts), sep)

\* seq[:n]
Take(seq, n) == SubSeq(seq, 1, IF Len(seq) < n THEN Len(seq) ELSE n)

\* A character that re.sub removed.
Removed == "REMOVED"

IsKept(c) == c # Removed

\* re.sub(r"\s+", " ", s): every maximal whitespace run becomes one space.
CollapseWhitespace(s) ==
    SelectSeq([i \in 1..Len(s) |->
                  IF s[i] \notin Whitespace THEN s[i]
                  ELSE IF i = 1 \/ s[i - 1] \notin Whitespace THEN " "
                  ELSE Removed],
              IsKept)

\* The greatest index j <= i with s[j] in set, or 0.
PrevIn(s, i, set) ==
    CHOOSE j \in 0..i :
        /\ j = 0 \/ s[j] \in set
        /\ \A k \in (j + 1)..i : s[k] \notin set

\* Whether re.sub(r"<[^>]+>", "", s) removes s[i].  The matches are found left
\* to right and do not overlap: a match ends at a ">" and starts at the first
\* "<" after the previous ">", provided at least one character lies between.
InTag(s, i) ==
    LET close == NextIn(s, i, {">"})
        open  == NextIn(s, PrevIn(s, i - 1, {">"}) + 1, {"<"})
    IN  close <= Len(s) /\ open <= i /\ open + 1 < close

RemoveTags(s) ==
    SelectSeq([i \in 1..Len(s) |-> IF InTag(s, i) THEN Removed ELSE s[i]], IsKept)

\* re.sub(r"^(a1|a2|...)\s*", "", s, flags=re.IGNORECASE): labels is the
\* lower-cased alternation, in order.
RECURSIVE StripLabelFrom(_, _, _)
StripLabelFrom(s, labels, k) ==
    IF k > Len(labels) THEN s
    ELSE IF StartsWith(Lower(s), labels[k])
         THEN SubSeq(s, NextNotIn(s, Len(labels[k]) + 1, Whitespace), Len(s))
         ELSE StripLabelFrom(s, labels, k + 1)

StripLabel(s, labels) == StripLabelFrom(s, labels, 1)

\* any(line.lower().startswith(l) for l in labels)
HasLabel(s, labels) == \E k \in 1..Len(labels) : StartsWith(Lower(s), labels[k])

\* ---------------------------------------------------------------------------
\* Summarizer.format_summary (summarize.py:380-447)
\* ---------------------------------------------------------------------------

\* Word caps of the final truncation, and the number of bullets of a Summary.
TitleWordCap == 10

BulletWordCap == 30

WhyWordCap == 20

BulletCount == 3

\* The characters that start a bullet line.
BulletMarkers == {"BULLET", "-"}

TitleLabels ==
    <<
      <<"t","i","t","o","l","o",":">>,
      <<"t","i","t","l","e",":">>
    >>

WhyLabels ==
    <<
      <<"p","e","r","c","h","e_acute"," ","t","i"," ","p","u","o_grave"," ","i","n","t","e","r",
        "e","s","s","a","r","e",":">>,
      <<"p","e","r","c","h","e_acute"," ","c","o","n","t","a",":">>,
      <<"w","h","y"," ","i","t"," ","m","a","t","t","e","r","s",":">>
    >>

SourceLabels ==
    <<
      <<"f","o","n","t","e",":">>,
      <<"s","o","u","r","c","e",":">>
    >>

PadBullet ==
    <<"D","e","t","t","a","g","l","i"," ","n","e","l","l","'","a","r","t","i","c","o","l","o",
      " ","c","o","m","p","l","e","t","o">>

DefaultWhy ==
    <<"I","n","f","o","r","m","a","z","i","o","n","i"," ","r","i","l","e","v","a","n","t","i",
      " ","p","e","r"," ","i","l"," ","s","e","t","t","o","r","e">>

SourceSuffix ==
    <<"\n","\n","F","o","n","t","e",":"," ">>

UnavailableSummary ==
    [title |->
        <<"R","i","a","s","s","u","n","t","o"," ","n","o","n"," ","d","i","s","p","o","n","i",
          "b","i","l","e">>,
     bullets |->
        <<
          <<"E","r","r","o","r","e"," ","n","e","l","l","a"," ","f","o","r","m","a","t","t","a",
            "z","i","o","n","e">>,
          <<"C","o","n","s","u","l","t","a","r","e"," ","a","r","t","i","c","o","l","o"," ","o",
            "r","i","g","i","n","a","l","e">>,
          <<"C","o","n","t","e","n","u","t","o"," ","n","o","n"," ","e","l","a","b","o","r","a",
            "b","i","l","e">>
        >>,
     why_it_matters |->
        <<"I","n","f","o","r","m","a","z","i","o","n","i"," ","p","o","t","r","e","b","b","e",
          "r","o"," ","e","s","s","e","r","e"," ","i","m","p","o","r","t","a","n","t","i">>]

\* lines = [line.strip() for line in raw_summary.split("\n") if line.strip()]
StripAll(parts) == [i \in 1..Len(parts) |-> Strip(parts[i])]

SummaryLines(raw_summary) == SelectSeq(StripAll(SplitEach(raw_summary, "\n")), NonEmpty)

\* ParseLine with bullets.insert(0, bullet) for bullets.append(bullet).
ParseLine_Prepend(line, acc) ==
    IF line[1] \in BulletMarkers
    THEN LET bullet == Strip(Tail(line))
         IN  IF bullet # << >>
             THEN [acc EXCEPT !.bullets = <<bullet>> \o @]
             ELSE acc
    ELSE IF HasLabel(line, WhyLabels)
    THEN [acc EXCEPT !.why_it_matters = StripLabel(line, WhyLabels)]
    ELSE IF HasLabel(line, SourceLabels)
    THEN [acc EXCEPT !.source = StripLabel(line, SourceLabels)]
    ELSE acc

\* ParseLine with line.startswith(label) for line.lower().startswith(label).
ParseLine_CaseSensitive(line, acc) ==
    IF line[1] \in BulletMarkers
    THEN LET bullet == Strip(Tail(line))
         IN  IF bullet # << >>
             THEN [acc EXCEPT !.bullets = Append(@, bullet)]
             ELSE acc
    ELSE IF \E k \in 1..Len(WhyLabels) : StartsWith(line, WhyLabels[k])
    THEN [acc EXCEPT !.why_it_matters = StripLabel(line, WhyLabels)]
    ELSE IF HasLabel(line, SourceLabels)
    THEN [acc EXCEPT !.source = StripLabel(line, SourceLabels)]
    ELSE acc

\* One pass of the loop over lines[1:]: acc holds bullets, why_it_matters and
\* source as they stand before lines[k] is looked at.
ParseLine(line, acc) ==
    IF line[1] \in BulletMarkers
    THEN LET bullet == Strip(Tail(line))
         IN  IF bullet # << >>
             THEN [acc EXCEPT !.bullets = Append(@, bullet)]
             ELSE acc
    ELSE IF HasLabel(line, WhyLabels)
    THEN [acc EXCEPT !.why_it_matters = StripLabel(line, WhyLabels)]
    ELSE IF HasLabel(line, SourceLabels)
    THEN [acc EXCEPT !.source = StripLabel(line, SourceLabels)]
    ELSE acc

RECURSIVE ParseLines(_, _, _)
ParseLines(lines, k, acc) ==
    IF k > Len(lines) THEN acc
    ELSE ParseLines(lines, k + 1, ParseLine(lines[k], acc))

\* PadBullets without the final bullets[:3].
PadBullets_NoCut(bullets) ==
    bullets \o [i \in 1..(IF Len(bullets) < BulletCount
                          THEN BulletCount - Len(bullets) ELSE 0) |-> PadBullet]

\* bullets.extend([pad] * (3 - len(bullets))); bullets = bullets[:3]
PadBullets(bullets) ==
    Take(bullets \o [i \in 1..(IF Len(bullets) < BulletCount
                               THEN BulletCount - Len(bullets) ELSE 0) |-> PadBullet],
         BulletCount)

\* TruncateWords without the [:cap].
TruncateWords_Off(text, cap) == Join(Words(text), <<" ">>)

\* " ".join(text.split()[:cap])
TruncateWords(text, cap) == Join(Take(Words(text), cap), <<" ">>)

format_summary(raw_summary) ==
    LET lines == SummaryLines(raw_summary)
    IN  IF lines = << >> THEN UnavailableSummary
        ELSE LET title  == StripLabel(lines[1], TitleLabels)
                 parsed == ParseLines(lines, 2,
                               [bullets |-> << >>, why_it_matters |-> << >>, source |-> << >>])
                 bullets == PadBullets(parsed.bullets)
                 why == IF parsed.why_it_matters = << >> THEN DefaultWhy
                        ELSE parsed.why_it_matters
                 why20 == TruncateWords(why, WhyWordCap)
             IN  [title |-> TruncateWords(title, TitleWordCap),
                  bullets |-> [i \in 1..Len(bullets) |-> TruncateWords(bullets[i], BulletWordCap)],
                  why_it_matters |-> IF parsed.source # << >>
                                     THEN why20 \o SourceSuffix \o parsed.source
                                     ELSE why20]

\* ---------------------------------------------------------------------------
\* Python floats (IEEE 754 binary64) for the sentence scores
\* ---------------------------------------------------------------------------

\* A natural number too large for one integer is a sequence of limbs, least
\* significant first, each below LimbBase.
LimbBits == 13

LimbBase == 2 ^ LimbBits

\* The significand of a binary64 value has 53 bits.
SignificandBits == 53

Limb(m, k) == IF k \in DOMAIN m THEN m[k] ELSE 0

\* The limbs of the number whose k-th limb position holds cols[k] (any
\* integer): carries and borrows move upward.
RECURSIVE BigCarry(_, _, _)
BigCarry(cols, k, carry) ==
    IF k \notin DOMAIN cols THEN << >>
    ELSE LET t == cols[k] + carry
             limb == ((t % LimbBase) + LimbBase) % LimbBase
         IN  <<limb>> \o BigCarry(cols, k + 1, (t - limb) \div LimbBase)

BigNorm(cols) == BigCarry(cols, 1, 0)

\* The number of bits of m (0 for zero).
BitLength(m) ==
    IF \A k \in DOMAIN m : m[k] = 0 THEN 0
    ELSE LET h == CHOOSE k \in DOMAIN m : m[k] # 0 /\ \A j \in DOMAIN m : j > k => m[j] = 0
             b == CHOOSE c \in 1..LimbBits : 2 ^ (c - 1) <= m[h] /\ m[h] < 2 ^ c
         IN  LimbBits * (h - 1) + b

\* Bit t (from 0) of m.
BigBit(m, t) == (Limb(m, (t \div LimbBits) + 1) \div (2 ^ (t % LimbBits))) % 2

\* Some bit of m below bit t is set.
LowBitsSet(m, t) ==
    \/ \E k \in 1..(t \div LimbBits) : Limb(m, k) # 0
    \/ Limb(m, (t \div LimbBits) + 1) % (2 ^ (t % LimbBits)) # 0

\* m * 2^s and floor(m / 2^s), in n limbs.
ShiftLeft(m, s, n) ==
    BigNorm([k \in 1..n |-> Limb(m, k - (s \div LimbBits)) * (2 ^ (s % LimbBits))])

ShiftRight(m, s, n) ==
    LET q == s \div LimbBits
        r == s % LimbBits
    IN  BigNorm([k \in 1..n |->
                    (Limb(m, k + q) \div (2 ^ r))
                      + (Limb(m, k + q + 1) % (2 ^ r)) * (2 ^ (LimbBits - r))])

\* a > b, for numbers of the same number of limbs.
BigGreater(a, b) ==
    \E k \in DOMAIN a : a[k] > b[k] /\ \A j \in DOMAIN a : j > k => a[j] = b[j]

\* The scale of the quotient computed before rounding: 2^-QuotientScale.
QuotientScale == 64

\* The number of limbs of a significand, of a quotient and of a product.
SigLimbs == (SignificandBits \div LimbBits) + 1

QuotientLimbs == (QuotientScale \div LimbBits) + 2

ProductLimbs == 2 * SigLimbs

\* A float is [m, e]: the value m / 2^e. Round to nearest, ties to even, of
\* the exact value m / 2^e (plus something below one unit of m when sticky):
\* the significand keeps 53 bits.
RoundFloat(m, e, sticky) ==
    LET len == BitLength(m)
        s == len - SignificandBits
    IN  IF s <= 0 THEN [m |-> ShiftRight(m, 0, SigLimbs), e |-> e]
        ELSE LET kept == ShiftRight(m, s, SigLimbs)
                 half == BigBit(m, s - 1) = 1
                 low == LowBitsSet(m, s - 1) \/ sticky
                 odd == BigBit(m, s) = 1
                 up == IF half /\ (low \/ odd) THEN 1 ELSE 0
             IN  [m |-> BigNorm([k \in 1..SigLimbs |-> kept[k] + (IF k = 1 THEN up ELSE 0)]),
                  e |-> e - s]

\* Short division of m by the small number d, from the top limb down.
RECURSIVE BigDivMod(_, _, _, _)
BigDivMod(m, d, k, rem) ==
    IF k = 0 THEN [q |-> << >>, r |-> rem]
    ELSE LET cur == rem * LimbBase + m[k]
             rest == BigDivMod(m, d, k - 1, cur % d)
         IN  [q |-> Append(rest.q, cur \div d), r |-> rest.r]

\* a / b for small integers a < b (true division of two ints).
FloatDiv(a, b) ==
    LET num == ShiftLeft(<<a>>, QuotientScale, QuotientLimbs)
        dm == BigDivMod(num, b, QuotientLimbs, 0)
    IN  RoundFloat(dm.q, QuotientScale, dm.r # 0)

\* 1.0
FloatOne == [m |-> BigNorm([k \in 1..SigLimbs |-> IF k = 1 THEN 1 ELSE 0]), e |-> 0]

\* x * y: column k of the product sums the SigLimbs limb products that fall
\* on it.
FloatMul(x, y) ==
    RoundFloat(
        BigNorm([k \in 1..ProductLimbs |->
                    Limb(x.m, 1) * Limb(y.m, k)
                      + Limb(x.m, 2) * Limb(y.m, k - 1)
                      + Limb(x.m, 3) * Limb(y.m, k - 2)
                      + Limb(x.m, 4) * Limb(y.m, k - 3)
                      + Limb(x.m, 5) * Limb(y.m, k - 4)]),
        x.e + y.e, FALSE)

\* x + y and x - y (for x >= y)
FloatSum(x, y, sign) ==
    LET e == IF x.e > y.e THEN x.e ELSE y.e
        xm == ShiftLeft(x.m, e - x.e, QuotientLimbs)
        ym == ShiftLeft(y.m, e - y.e, QuotientLimbs)
    IN  RoundFloat(BigNorm([k \in 1..QuotientLimbs |-> xm[k] + sign * ym[k]]), e, FALSE)

FloatAdd(x, y) == FloatSum(x, y, 1)

FloatSub(x, y) == FloatSum(x, y, -1)

\* The float as a number of units of 2^-QuotientScale, for comparisons.
FloatUnits(x) == ShiftLeft(x.m, QuotientScale - x.e, SigLimbs)

\* ---------------------------------------------------------------------------
\* Summarizer.fallback_summarize and _generate_why_it_matters
\* (summarize.py:296-378)
\* ---------------------------------------------------------------------------

\* A sentence is kept when its stripped length exceeds this many characters.
MinSentenceChars == 20

\* Only the first sentences[:10] are scored.
MaxScoredSentences == 10

\* The top scored_sentences[:3] become bullets.
TopSentenceCount == 3

\* top_sentences[0].split()[:8] is the title.
FallbackTitleWordCap == 8

\* sentence.split()[:30] is a bullet.
FallbackBulletWordCap == 30

\* The characters of the sentence-splitting class [.!?].
SentenceEnders == {".", "!", "?"}

\* The ordered keyword groups of _generate_why_it_matters and their phrases.
KeywordTable ==
    <<
      [words |->
          <<
            <<"a","i">>,
            <<"a","r","t","i","f","i","c","i","a","l"," ","i","n","t","e","l","l","i","g","e",
              "n","c","e">>,
            <<"m","a","c","h","i","n","e"," ","l","e","a","r","n","i","n","g">>,
            <<"m","l">>
          >>,
       phrase |->
          <<"A","g","g","i","o","r","n","a","m","e","n","t","i"," ","s","u","l","l","'","i","n",
            "t","e","l","l","i","g","e","n","z","a"," ","a","r","t","i","f","i","c","i","a","l",
            "e"," ","c","h","e"," ","p","o","t","r","e","b","b","e","r","o"," ","i","n","f","l",
            "u","e","n","z","a","r","e"," ","i","l"," ","t","u","o"," ","l","a","v","o","r",
            "o">>],
      [words |->
          <<
            <<"s","e","c","u","r","i","t","y">>,
            <<"s","i","c","u","r","e","z","z","a">>,
            <<"v","u","l","n","e","r","a","b","i","l","i","t","y">>,
            <<"b","r","e","a","c","h">>
          >>,
       phrase |->
          <<"I","n","f","o","r","m","a","z","i","o","n","i"," ","d","i"," ","s","i","c","u","r",
            "e","z","z","a"," ","i","m","p","o","r","t","a","n","t","i"," ","p","e","r"," ","p",
            "r","o","t","e","g","g","e","r","e"," ","i"," ","t","u","o","i"," ","s","i","s","t",
            "e","m","i">>],
      [words |->
          <<
            <<"a","w","s">>,
            <<"c","l","o","u","d">>,
            <<"s","e","r","v","e","r","l","e","s","s">>,
            <<"l","a","m","b","d","a">>
          >>,
       phrase |->
          <<"N","o","v","i","t","a_grave"," ","c","l","o","u","d"," ","c","h","e"," ","p","o",
            "t","r","e","b","b","e","r","o"," ","o","t","t","i","m","i","z","z","a","r","e"," ",
            "l","a"," ","t","u","a"," ","i","n","f","r","a","s","t","r","u","t","t","u","r",
            "a">>],
      [words |->
          <<
            <<"g","i","t","h","u","b">>,
            <<"g","i","t">>,
            <<"r","e","p","o","s","i","t","o","r","y">>,
            <<"o","p","e","n"," ","s","o","u","r","c","e">>
          >>,
       phrase |->
          <<"S","v","i","l","u","p","p","i"," ","n","e","l"," ","m","o","n","d","o"," ","o","p",
            "e","n"," ","s","o","u","r","c","e"," ","c","h","e"," ","p","o","t","r","e","b","b",
            "e","r","o"," ","i","n","t","e","r","e","s","s","a","r","e"," ","i"," ","d","e","v",
            "e","l","o","p","e","r">>],
      [words |->
          <<
            <<"p","e","r","f","o","r","m","a","n","c","e">>,
            <<"o","p","t","i","m","i","z","a","t","i","o","n">>,
            <<"s","p","e","e","d">>,
            <<"f","a","s","t","e","r">>
          >>,
       phrase |->
          <<"M","i","g","l","i","o","r","a","m","e","n","t","i"," ","d","e","l","l","e"," ","p",
            "r","e","s","t","a","z","i","o","n","i"," ","c","h","e"," ","p","o","t","r","e","b",
            "b","e","r","o"," ","a","c","c","e","l","e","r","a","r","e"," ","i"," ","t","u","o",
            "i"," ","p","r","o","g","e","t","t","i">>],
      [words |->
          <<
            <<"c","o","s","t">>,
            <<"p","r","i","c","i","n","g">>,
            <<"s","a","v","e">>,
            <<"b","u","d","g","e","t">>
          >>,
       phrase |->
          <<"I","n","f","o","r","m","a","z","i","o","n","i"," ","s","u","i"," ","c","o","s","t",
            "i"," ","c","h","e"," ","p","o","t","r","e","b","b","e","r","o"," ","f","a","r"," ",
            "r","i","s","p","a","r","m","i","a","r","e"," ","l","a"," ","t","u","a"," ","a","z",
            "i","e","n","d","a">>],
      [words |->
          <<
            <<"n","e","w">>,
            <<"l","a","u","n","c","h">>,
            <<"a","n","n","o","u","n","c","e">>,
            <<"r","e","l","e","a","s","e">>
          >>,
       phrase |->
          <<"N","u","o","v","i"," ","s","t","r","u","m","e","n","t","i"," ","o"," ","s","e","r",
            "v","i","z","i"," ","c","h","e"," ","p","o","t","r","e","b","b","e","r","o"," ","e",
            "s","s","e","r","e"," ","u","t","i","l","i"," ","p","e","r"," ","i","l"," ","t","u",
            "o"," ","l","a","v","o","r","o">>],
      [words |->
          <<
            <<"u","p","d","a","t","e">>,
            <<"v","e","r","s","i","o","n">>,
            <<"f","e","a","t","u","r","e">>
          >>,
       phrase |->
          <<"A","g","g","i","o","r","n","a","m","e","n","t","i"," ","c","h","e"," ","p","o","t",
            "r","e","b","b","e","r","o"," ","m","i","g","l","i","o","r","a","r","e"," ","i"," ",
            "t","u","o","i"," ","f","l","u","s","s","i"," ","d","i"," ","l","a","v","o","r",
            "o">>]
    >>

GenericWhy ==
    <<"S","v","i","l","u","p","p","i"," ","t","e","c","n","o","l","o","g","i","c","i"," ","c",
      "h","e"," ","p","o","t","r","e","b","b","e","r","o"," ","i","m","p","a","t","t","a","r",
      "e"," ","i","l"," ","s","e","t","t","o","r","e">>

\* The fixed raw text returned for a text that is empty once cleaned.
EmptyContentText(url) ==
    <<"C","o","n","t","e","n","u","t","o"," ","n","o","n"," ","d","i","s","p","o","n","i","b",
      "i","l","e","\n","BULLET"," ","A","r","t","i","c","o","l","o"," ","v","u","o","t","o"," ",
      "o"," ","n","o","n"," ","l","e","g","g","i","b","i","l","e","\n","BULLET"," ","C","o","n",
      "s","u","l","t","a","r","e"," ","i","l"," ","l","i","n","k"," ","o","r","i","g","i","n",
      "a","l","e","\n","BULLET"," ","I","n","f","o","r","m","a","z","i","o","n","i"," ","p","o",
      "t","r","e","b","b","e","r","o"," ","e","s","s","e","r","e"," ","d","i","s","p","o","n",
      "i","b","i","l","i"," ","o","n","l","i","n","e","\n","P","e","r","c","h","e_acute"," ",
      "c","o","n","t","a",":"," ","I","l"," ","c","o","n","t","e","n","u","t","o"," ","p","o",
      "t","r","e","b","b","e"," ","c","o","n","t","e","n","e","r","e"," ","i","n","f","o","r",
      "m","a","z","i","o","n","i"," ","r","i","l","e","v","a","n","t","i","\n","\n","F","o","n",
      "t","e",":"," ">>
    \o url

\* The fixed raw text returned when no sentence is longer than 20 characters.
ShortContentText(url) ==
    <<"C","o","n","t","e","n","u","t","o"," ","b","r","e","v","e"," ","d","i","s","p","o","n",
      "i","b","i","l","e","\n","BULLET"," ","T","e","s","t","o"," ","t","r","o","p","p","o"," ",
      "b","r","e","v","e"," ","p","e","r"," ","i","l"," ","r","i","a","s","s","u","n","t","o",
      "\n","BULLET"," ","C","o","n","s","u","l","t","a","r","e"," ","l","'","a","r","t","i","c",
      "o","l","o"," ","c","o","m","p","l","e","t","o","\n","BULLET"," ","D","e","t","t","a","g",
      "l","i"," ","n","e","l"," ","l","i","n","k"," ","o","r","i","g","i","n","a","l","e","\n",
      "P","e","r","c","h","e_acute"," ","c","o","n","t","a",":"," ","I","n","f","o","r","m","a",
      "z","i","o","n","i"," ","a","g","g","i","u","n","t","i","v","e"," ","p","o","t","r","e",
      "b","b","e","r","o"," ","e","s","s","e","r","e"," ","i","m","p","o","r","t","a","n","t",
      "i","\n","\n","F","o","n","t","e",":"," ">>
    \o url

FallbackPadBullet ==
    <<"I","n","f","o","r","m","a","z","i","o","n","i"," ","a","g","g","i","u","n","t","i","v",
      "e"," ","n","e","l","l","'","a","r","t","i","c","o","l","o"," ","c","o","m","p","l","e",
      "t","o",".",".",".">>

FallbackTitleWords ==
    <<
      <<"R","i","a","s","s","u","n","t","o">>,
      <<"a","r","t","i","c","o","l","o">>
    >>

BulletPrefix ==
    <<"BULLET"," ">>

FallbackWhyLabel ==
    <<"P","e","r","c","h","e_acute"," ","c","o","n","t","a",":"," ">>

Ellipsis ==
    <<".",".",".">>

\* any(word in content_lower for word in words)
AnyKeyword(content_lower, words) ==
    \E k \in 1..Len(words) : Contains(content_lower, words[k])

RECURSIVE WhyFromTable(_, _)
WhyFromTable(content_lower, k) ==
    IF k > Len(KeywordTable) THEN GenericWhy
    ELSE IF AnyKeyword(content_lower, KeywordTable[k].words) THEN KeywordTable[k].phrase
    ELSE WhyFromTable(content_lower, k + 1)

generate_why_it_matters(content) == WhyFromTable(Lower(content), 1)

\* CleanText without the removal of tags.
CleanText_KeepTags(content) == Strip(CollapseWhitespace(content))

\* text = re.sub(r"\s+", " ", re.sub(r"<[^>]+>", "", content)).strip()
CleanText(content) == Strip(CollapseWhitespace(RemoveTags(content)))

\* LongEnough with no minimum length.
LongEnough_Any(s) == Len(s) > 0

\* len(s.strip()) > 20

LongEnough(s) == Len(s) > MinSentenceChars

\* sentences = [s.strip() for s in re.split(r"[.!?]+", text) if len(s.strip()) > 20]
Sentences(text) == SelectSeq(StripAll(SplitRuns(text, SentenceEnders)), LongEnough)

\* The literals 0.6 and 0.4: the floats nearest to 6/10 and 4/10.
PositionWeight == FloatDiv(6, 10)

LengthWeight == FloatDiv(4, 10)

\* total_score of sentence number i (from 0) of n sentences, of length len:
\* position_score = 1.0 - (i / len(sentences)); length_score = min(len / 100, 1.0);
\* total_score = position_score * 0.6 + length_score * 0.4
Score(i, n, len) ==
    LET position_score == FloatSub(FloatOne, FloatDiv(i, n))
        length_score == IF len < 100 THEN FloatDiv(len, 100) ELSE FloatOne
    IN  FloatUnits(FloatAdd(FloatMul(position_score, PositionWeight),
                            FloatMul(length_score, LengthWeight)))

\* Rank for a sort that puts the later of two sentences of the same score
\* first.
Rank_LaterFirst(scores, i) ==
    1 + Cardinality({j \in 1..Len(scores) : BigGreater(scores[j], scores[i])})
      + Cardinality({j \in (i + 1)..Len(scores) : scores[j] = scores[i]})

\* The position (from 1) that scored sentence i takes after
\* scored_sentences.sort(key=score, reverse=True), a stable sort: behind every
\* sentence of a greater score and every earlier sentence of the same score.
Rank(scores, i) ==
    1 + Cardinality({j \in 1..Len(scores) : BigGreater(scores[j], scores[i])})
      + Cardinality({j \in 1..(i - 1) : scores[j] = scores[i]})

\* top_sentences = [s[0] for s in scored_sentences[:3]]
TopSentences(sentences) ==
    LET scored == Take(sentences, MaxScoredSentences)
        scores == [i \in 1..Len(scored) |-> Score(i - 1, Len(sentences), Len(scored[i]))]
        count  == IF Len(scored) < TopSentenceCount THEN Len(scored) ELSE TopSentenceCount
    IN  [r \in 1..count |-> scored[CHOOSE i \in 1..Len(scored) : Rank(scores, i) = r]]

\* One bullet: the first 30 words, with "..." unless it ends with ".".
FallbackBullet(sentence) ==
    LET bullet == Join(Take(Words(sentence), FallbackBulletWordCap), <<" ">>)
    IN  IF EndsWith(bullet, <<".">>) THEN bullet ELSE bullet \o Ellipsis

\* while len(bullets) < 3: bullets.append(pad)
FallbackBullets(top_sentences) ==
    [i \in 1..(IF Len(top_sentences) < TopSentenceCount
               THEN TopSentenceCount ELSE Len(top_sentences)) |->
        IF i <= Len(top_sentences) THEN FallbackBullet(top_sentences[i])
        ELSE FallbackPadBullet]

RECURSIVE BulletLines(_)
BulletLines(bullets) ==
    IF bullets = << >> THEN << >>
    ELSE BulletPrefix \o bullets[1] \o <<"\n">> \o BulletLines(Tail(bullets))

\* fallback_summarize with the title taken from the first sentence of the text.
fallback_summarize_FirstSentenceTitle(content, url) ==
    LET text == CleanText(content)
        sentences == Sentences(text)
        top_sentences == TopSentences(sentences)
        title_words == IF top_sentences # << >>
                       THEN Take(Words(sentences[1]), FallbackTitleWordCap)
                       ELSE FallbackTitleWords
    IN  IF text = << >> THEN EmptyContentText(url)
        ELSE IF sentences = << >> THEN ShortContentText(url)
        ELSE Join(title_words, <<" ">>) \o <<"\n">>
             \o BulletLines(Take(FallbackBullets(top_sentences), TopSentenceCount))
             \o FallbackWhyLabel \o generate_why_it_matters(text)
             \o SourceSuffix \o url

\* title = " ".join(top_sentences[0].split()[:8]), three bullet lines, the
\* why-it-matters line and the source line
fallback_summarize(content, url) ==
    LET text == CleanText(content)
        sentences == Sentences(text)
        top_sentences == TopSentences(sentences)
        title_words == IF top_sentences # << >>
                       THEN Take(Words(top_sentences[1]), FallbackTitleWordCap)
                       ELSE FallbackTitleWords
    IN  IF text = << >> THEN EmptyContentText(url)
        ELSE IF sentences = << >> THEN ShortContentText(url)
        ELSE Join(title_words, <<" ">>) \o <<"\n">>
             \o BulletLines(Take(FallbackBullets(top_sentences), TopSentenceCount))
             \o FallbackWhyLabel \o generate_why_it_matters(text)
             \o SourceSuffix \o url

\* ---------------------------------------------------------------------------
\* Summary (models.py:19-25) and the metadata summarize attaches to it
\* ---------------------------------------------------------------------------

\* The fields the Summary dataclass declares; its generated __init__ accepts
\* exactly these keywords and raises TypeError on any other.
SummaryFields == {"title", "bullets", "why_it_matters"}

SummaryInitRaises(kwargs) == DOMAIN kwargs # SummaryFields

\* An optional value (None or a value) is a set of at most one element.
None == {}

Some(v) == {v}

\* The bullets and why_it_matters of the emergency Summary.
EmergencyBullets ==
    <<
      <<"C","o","n","t","e","n","u","t","o"," ","n","o","n"," ","d","i","s","p","o","n","i","b",
        "i","l","e"," ","p","e","r"," ","i","l"," ","r","i","a","s","s","u","n","t","o">>,
      <<"C","o","n","s","u","l","t","a","r","e"," ","l","'","a","r","t","i","c","o","l","o"," ",
        "o","r","i","g","i","n","a","l","e"," ","p","e","r"," ","d","e","t","t","a","g","l",
        "i">>,
      <<"E","r","r","o","r","e"," ","d","u","r","a","n","t","e"," ","l","'","e","l","a","b","o",
        "r","a","z","i","o","n","e"," ","d","e","l"," ","t","e","s","t","o">>
    >>

EmergencyWhy ==
    <<"I","n","f","o","r","m","a","z","i","o","n","i"," ","i","m","p","o","r","t","a","n","t",
      "i"," ","d","i","s","p","o","n","i","b","i","l","i"," ","n","e","l","l","'","a","r","t",
      "i","c","o","l","o"," ","c","o","m","p","l","e","t","o">>

ModelUsedFallback ==
    <<"f","a","l","l","b","a","c","k">>

ModelUsedError ==
    <<"e","r","r","o","r">>

LlamaMarker ==
    <<"l","l","a","m","a">>

\* BedrockConfig.model_id: the default, and a Llama model id.
NovaModelId ==
    <<"a","m","a","z","o","n",".","n","o","v","a","-","m","i","c","r","o","-","v","1",":","0">>

LlamaModelId ==
    <<"m","e","t","a",".","l","l","a","m","a","3","-","2","-","3","b","-","i","n","s","t","r",
      "u","c","t","-","v","1",":","0">>

\* summary.model_used = ...; summary.tokens_used = ...; summary.response_time_ms = ...
WithMeta(summary, model_used, tokens_used, response_time_ms) ==
    [title |-> summary.title,
     bullets |-> summary.bullets,
     why_it_matters |-> summary.why_it_matters,
     model_used |-> model_used,
     tokens_used |-> tokens_used,
     response_time_ms |-> response_time_ms]

\* item.title[:50] + "..." if len(item.title) > 50 else item.title
EmergencyTitleChars == 50

EmergencyTitle(title) ==
    IF Len(title) > EmergencyTitleChars
    THEN SubSeq(title, 1, EmergencyTitleChars) \o Ellipsis
    ELSE title

\* The keyword arguments of the Summary(...) call in summarize's except block.
EmergencyKwargs(item) ==
    [title |-> EmergencyTitle(item.title),
     bullets |-> EmergencyBullets,
     why_it_matters |-> EmergencyWhy,
     model_used |-> ModelUsedError,
     tokens_used |-> None,
     response_time_ms |-> None]

\* ---------------------------------------------------------------------------
\* The prompt template and the remote endpoint
\* ---------------------------------------------------------------------------

\* A template is the sequence of its literal parts ("text") and its replacement
\* fields.  The built-in template has the fields {content} and {url}; a template
\* file may have any.
DefaultTemplate == <<"text", "{content}", "text", "{url}", "text">>

Templates ==
    {DefaultTemplate,
     <<"text", "{content}", "text">>,
     <<"text", "{content}", "{url}", "{title}">>}

\* self.prompt_template.format(content=content, url=url) raises KeyError on a
\* replacement field that is not one of the keyword arguments.
FormatKwargs == {"{content}", "{url}"}

PromptFormatRaises(template) ==
    \E k \in 1..Len(template) : template[k] # "text" /\ template[k] \notin FormatKwargs

\* "llama" in self.config.model_id.lower()
IsLlama(id) == Contains(Lower(id), LlamaMarker)

ModelIds == {NovaModelId, LlamaModelId}

\* The pieces item contents are built from:
\*   1. empty after cleaning: a tag and whitespace
\*   2. a sentence of 11 characters
\*   3. a sentence of 24 characters with a ">" that closes no tag
\*   4. a sentence of 16 words with a tag and a keyword of the table
\*   5. a sentence of 31 words
ContentFragments ==
    <<
      <<"<","p",">"," ","\n">>,
      <<"S","h","o","r","t"," ","t","e","x","t",".">>,
      <<"A","l","p","h","a"," ",">"," ","b","e","t","a"," ","g","a","m","m","a"," ","d","e","l",
        "t","a","."," ">>,
      <<"<","b",">","N","e","w","<","/","b",">"," ","x"," ","x"," ","x"," ","x"," ","x"," ","x",
        " ","x"," ","x"," ","x"," ","x"," ","x"," ","x"," ","x"," ","x"," ","x","!"," ">>,
      <<"y"," ","y"," ","y"," ","y"," ","y"," ","y"," ","y"," ","y"," ","y"," ","y"," ","y"," ",
        "y"," ","y"," ","y"," ","y"," ","y"," ","y"," ","y"," ","y"," ","y"," ","y"," ","y"," ",
        "y"," ","y"," ","y"," ","y"," ","y"," ","y"," ","y"," ","y"," ","y","?"," ">>
    >>

\* Item titles: a short one, and one of 51 characters.
ItemTitles ==
    {
      <<"A","W","S"," ","N","e","w","s">>,
      <<"T","T","T","T","T","T","T","T","T","T","T","T","T","T","T","T","T","T","T","T","T","T",
        "T","T","T","T","T","T","T","T","T","T","T","T","T","T","T","T","T","T","T","T","T","T",
        "T","T","T","T","T","T","T">>
    }

ItemLinks ==
    {
      <<"u">>
    }

\* A text in the format the prompt asks for: a title line, three bullets and
\* a why-it-matters line.
ContractText ==
    <<"T","i","t","l","e","\n","BULLET"," ","A","\n","BULLET"," ","B","\n","BULLET"," ","C",
      "\n","P","e","r","c","h","e_acute"," ","c","o","n","t","a",":"," ","X">>

\* Texts the remote model may generate: the contract format, empty, blank, the
\* contract format with four bullets, a bare title label, and over-long bullet
\* and why-it-matters.
RemoteTexts ==
    {
      ContractText,
      << >>,
      <<" ","\n">>,
      <<"T","i","t","l","e","\n","BULLET"," ","A","\n","BULLET"," ","B","\n","BULLET"," ","C",
        "\n","BULLET"," ","D","\n","P","e","r","c","h","e_acute"," ","c","o","n","t","a",":",
        " ","X">>,
      <<"T","i","t","o","l","o",":","\n","-"," ","A","\n","W","h","y"," ","i","t"," ","m","a",
        "t","t","e","r","s",":"," ","X","\n","F","o","n","t","e",":"," ","u">>,
      <<"BULLET"," ","z"," ","z"," ","z"," ","z"," ","z"," ","z"," ","z"," ","z"," ","z"," ",
        "z"," ","z"," ","z"," ","z"," ","z"," ","z"," ","z"," ","z"," ","z"," ","z"," ","z"," ",
        "z"," ","z"," ","z"," ","z"," ","z"," ","z"," ","z"," ","z"," ","z"," ","z"," ","z",
        "\n","P","E","R","C","H","E_ACUTE"," ","T","I"," ","P","U","O_GRAVE"," ","I","N","T",
        "E","R","E","S","S","A","R","E",":"," ","v"," ","v"," ","v"," ","v"," ","v"," ","v"," ",
        "v"," ","v"," ","v"," ","v"," ","v"," ","v"," ","v"," ","v"," ","v"," ","v"," ","v"," ",
        "v"," ","v"," ","v"," ","v">>
    }

\* What invoke_model (or reading and decoding its body) may raise: a ClientError
\* with its error code, or any other exception.
InvokeExceptions ==
    {"AccessDeniedException", "ValidationException", "ThrottlingException", "Exception"}

ClientErrorCodes == {"AccessDeniedException", "ValidationException", "ThrottlingException"}

\* A JSON string value or null, as an optional.
JsonTexts == {Some(t) : t \in RemoteTexts} \cup {None}

\* The decoded response bodies: the Llama shape, the Nova shape with and
\* without usage, and shapes that lack the expected fields.
LlamaBodies ==
    {[generation |-> t, generation_token_count |-> g, prompt_token_count |-> 5] :
        t \in JsonTexts, g \in {0, 7}}

NovaBodies ==
    {[output |-> [message |-> [content |-> <<[text |-> t]>>]],
      usage |-> [inputTokens |-> 3, outputTokens |-> 4]] : t \in JsonTexts}
    \cup {[output |-> [message |-> [content |-> <<[text |-> t]>>]]] : t \in JsonTexts}

\* A body that carries the contract text under a top-level content list, with
\* no output field.
ContentOnlyBody == [content |-> <<[text |-> Some(ContractText)]>>]

MalformedBodies ==
    {ContentOnlyBody,
     [output |-> [message |-> [content |-> << >>]]],
     [output |-> [message |-> [role |-> "assistant"]]],
     [output |-> [stop |-> "end"]]}

ResponseBodies == LlamaBodies \cup NovaBodies \cup MalformedBodies

\* int((time.time() - start_time) * 1000)
ElapsedValues == {0, 250}

\* dict.get(key) or dict.get(other): 0 and a missing key are falsy.
TokenCount(body) ==
    IF "generation_token_count" \in DOMAIN body /\ body.generation_token_count # 0
    THEN Some(body.generation_token_count)
    ELSE IF "prompt_token_count" \in DOMAIN body
         THEN Some(body.prompt_token_count)
         ELSE None

\* The Llama branch of the response parsing: len(summary_text) raises TypeError
\* when the generation is null.
ExtractLlama(body) ==
    IF "generation" \in DOMAIN body
    THEN [raised |-> body.generation = None,
          text |-> body.generation,
          tokens |-> TokenCount(body),
          log |-> <<"info:llama_success">>]
    ELSE [raised |-> FALSE, text |-> None, tokens |-> None,
          log |-> <<"error:missing_generation">>]

\* The Nova / Mistral branch: message["content"][0].get("text", "").
ExtractNova(body) ==
    IF "output" \in DOMAIN body /\ "message" \in DOMAIN body.output
    THEN LET message == body.output.message
         IN  IF "content" \in DOMAIN message /\ Len(message.content) > 0
             THEN LET part == message.content[1]
                      text == IF "text" \in DOMAIN part THEN part.text ELSE Some(<< >>)
                  IN  [raised |-> text = None,
                       text |-> text,
                       tokens |-> IF "usage" \in DOMAIN body
                                  THEN Some(body.usage.inputTokens + body.usage.outputTokens)
                                  ELSE None,
                       log |-> <<"info:nova_success">>]
             ELSE [raised |-> FALSE, text |-> None, tokens |-> None,
                   log |-> <<"error:missing_content">>]
    ELSE [raised |-> FALSE, text |-> None, tokens |-> None,
          log |-> <<"error:missing_output">>]

ExtractText(id, body) == IF IsLlama(id) THEN ExtractLlama(body) ELSE ExtractNova(body)

\* The record "Bedrock response received, keys: [...]", by the keys of the body.
ResponseKeysLog(body) ==
    IF "generation" \in DOMAIN body THEN "info:response_keys:generation"
    ELSE IF "output" \in DOMAIN body
         THEN IF "usage" \in DOMAIN body THEN "info:response_keys:output,usage"
              ELSE "info:response_keys:output"
    ELSE "info:response_keys:content"

\* The (None, None, None) of bedrock_summarize.
NoResult == [text |-> None, tokens |-> None, response_time_ms |-> None]

\* What bedrock_summarize returns for a decoded body: the stripped text with
\* its measurements if `summary_text and summary_text.strip()`, else no result.
BedrockResult(id, body, elapsed) ==
    LET r == ExtractText(id, body)
    IN  IF r.raised THEN [ret |-> NoResult, log |-> <<"error:unexpected_error">>]
        ELSE IF r.text # None /\ \E t \in r.text : Strip(t) # << >>
        THEN [ret |-> [text |-> {Strip(t) : t \in r.text},
                       tokens |-> r.tokens,
                       response_time_ms |-> Some(elapsed)],
              log |-> r.log]
        ELSE [ret |-> NoResult, log |-> r.log \o <<"warning:empty_response">>]

\* The log record of the except branches of bedrock_summarize.
InvokeErrorLog(e) ==
    IF e = "AccessDeniedException" THEN <<"warning:access_denied">>
    ELSE IF e = "ValidationException" THEN <<"warning:validation_error">>
    ELSE IF e \in ClientErrorCodes THEN <<"error:client_error">>
    ELSE <<"error:unexpected_error">>

\* ---------------------------------------------------------------------------
\* Inputs
\* ---------------------------------------------------------------------------

\* The number of fragments an item content is built from.
MaxFragments == 2

RECURSIVE Concat(_)
Concat(parts) == IF parts = << >> THEN << >> ELSE parts[1] \o Concat(Tail(parts))

FragmentSeqs(n) == UNION {[1..k -> 1..Len(ContentFragments)] : k \in 0..n}

ItemContents ==
    {Concat([i \in DOMAIN f |-> ContentFragments[f[i]]]) : f \in FragmentSeqs(MaxFragments)}

\* FeedItem (models.py:7-16), the fields the summarizer reads.
Items == [title : ItemTitles, content : ItemContents, link : ItemLinks]

NoItem == [title |-> << >>, content |-> << >>, link |-> << >>]

\* ---------------------------------------------------------------------------
\* State
\* ---------------------------------------------------------------------------

VARIABLES
    bedrock_client,   \* self.bedrock_client is not None
    prompt_template,  \* self.prompt_template
    model_id,         \* self.config.model_id
    pc,               \* where the running call stands
    caller,           \* the entry point of the running call
    item,             \* the FeedItem being summarized
    exc,              \* an exception raised inside summarize's try block
    bedrock_ret,      \* what bedrock_summarize returned, if it returned
    raw_text,         \* the raw text handed to format_summary, if any
    returned,         \* the value the call returned, if it returned
    raised,           \* the exception the call propagated, if any
    trace,            \* invoke_model, fallback_summarize and format_summary calls
    log               \* the records the call logged

\* TelegramPublisher (telegram.py)
VARIABLES
    retry_attempts,   \* self.config.retry_attempts
    backoff_factor,   \* self.config.backoff_factor
    t_pc,             \* where the running send stands
    t_caller,         \* the entry point of the running send
    attempt,          \* the loop variable of _send_telegram_message
    requests,         \* the outcome of each urlopen call, in order
    sleeps,           \* the argument of each time.sleep call, in order
    sent,             \* what _send_telegram_message returned, if it returned
    send_result       \* what send_message returned, if it returned

\* lambda_handler (lambda_handler.py)
VARIABLES
    h_pc,             \* where the running invocation stands
    feeds,            \* what parse_feed does for each feed URL, in order
    store,            \* the item ids in the DynamoDB table
    feed_idx,         \* the position of the loop over feed_urls
    all_items,        \* all_items
    item_idx,         \* the position of the loop over all_items
    present,          \* was the id of the item being processed in the table when checked
    metrics,          \* metrics
    ops,              \* the calls made for the item being processed, with their outcomes
    cw_calls,         \* the outcome of each send_cloudwatch_metrics call, in order
    critical,         \* the exception the outer except clause caught, if any
    response,         \* the response returned, if any
    delivery          \* for each item id, whether send_message has been called with it

summarizer_vars ==
    <<bedrock_client, prompt_template, model_id, pc, caller, item, exc, bedrock_ret,
      raw_text, returned, raised, trace, log>>

telegram_vars ==
    <<retry_attempts, backoff_factor, t_pc, t_caller, attempt, requests, sleeps, sent,
      send_result>>

handler_vars ==
    <<h_pc, feeds, store, feed_idx, all_items, item_idx, present, metrics, ops, cw_calls,
      critical, response, delivery>>

vars == <<summarizer_vars, telegram_vars, handler_vars>>

\* The variables of the other components, which the Summarizer leaves alone.
others == <<telegram_vars, handler_vars>>

config == <<bedrock_client, prompt_template, model_id>>

\* TelegramConfig defaults (config.py:16-17).
DefaultRetryAttempts == 3

DefaultBackoffFactor == 2

\* No send is running.
SendIdle ==
    /\ t_pc = "idle"
    /\ t_caller = "none"
    /\ attempt = 0
    /\ requests = << >>
    /\ sleeps = << >>
    /\ sent = None
    /\ send_result = None

\* The publisher of a deployment, between sends.
TelegramIdle ==
    /\ retry_attempts = DefaultRetryAttempts
    /\ backoff_factor = DefaultBackoffFactor
    /\ SendIdle

\* metrics as lambda_handler initializes it.
NoMetrics ==
    [feeds_processed |-> 0, items_found |-> 0, items_deduplicated |-> 0,
     items_summarized |-> 0, messages_sent |-> 0, errors |-> << >>]

\* No invocation is running.
InvocationIdle ==
    /\ h_pc = "idle"
    /\ feeds = << >>
    /\ feed_idx = 1
    /\ all_items = << >>
    /\ item_idx = 1
    /\ present = None
    /\ metrics = NoMetrics
    /\ ops = << >>
    /\ cw_calls = << >>
    /\ critical = None
    /\ response = None

\* The ids generate_item_id gives the items of the feeds.
ItemIds == {"a", "b"}

\* No id has been passed to send_message.
NeverDelivered == [id \in ItemIds |-> "never"]

\* The handler between invocations, with an empty table.
HandlerIdle ==
    /\ store = {}
    /\ delivery = NeverDelivered
    /\ InvocationIdle

\* The variables of one call, as they stand before any call.
CallIdle ==
    /\ caller = "none"
    /\ item = NoItem
    /\ exc = None
    /\ bedrock_ret = None
    /\ raw_text = None
    /\ returned = None
    /\ raised = None
    /\ trace = << >>
    /\ log = << >>

\* Summarizer.__init__: the template is the file's text or the built-in one,
\* the client is None when boto3.client raised.
Init ==
    /\ bedrock_client \in BOOLEAN
    /\ prompt_template \in Templates
    /\ model_id \in ModelIds
    /\ pc = "idle"
    /\ CallIdle
    /\ TelegramIdle
    /\ HandlerIdle

\* ---------------------------------------------------------------------------
\* Summarizer.summarize (summarize.py:95-152)
\* ---------------------------------------------------------------------------

\* summarize(item) is called: the first log record, then the try block.
Summarize(it) ==
    /\ pc = "idle"
    /\ pc' = "try"
    /\ caller' = "summarize"
    /\ item' = it
    /\ log' = <<"info:starting">>
    /\ UNCHANGED <<others, config, exc, bedrock_ret, raw_text,
                   returned, raised, trace>>

\* if self.bedrock_client: call bedrock_summarize(item.content, item.link)
TryBedrock ==
    /\ pc = "try"
    /\ bedrock_client
    /\ pc' = "bedrock_entry"
    /\ log' = Append(log, "info:attempting_bedrock")
    /\ UNCHANGED <<others, config, caller, item, exc, bedrock_ret,
                   raw_text, returned, raised, trace>>

\* No client: straight to the extractive fallback.
SkipBedrock ==
    /\ pc = "try"
    /\ ~bedrock_client
    /\ pc' = "fallback"
    /\ UNCHANGED <<others, config, caller, item, exc, bedrock_ret,
                   raw_text, returned, raised, trace, log>>

\* bedrock_summarize returned to summarize with a text: it is parsed.
RemoteTextAccepted ==
    /\ pc = "bedrock_return"
    /\ caller = "summarize"
    /\ \E r \in bedrock_ret : r.text # None /\ raw_text' = r.text
    /\ pc' = "format_remote"
    /\ UNCHANGED <<others, config, caller, item, exc, bedrock_ret,
                   returned, raised, trace, log>>

\* RemoteTextMissing with one more remote attempt before the fallback.
RemoteTextMissing_Retry ==
    /\ pc = "bedrock_return"
    /\ caller = "summarize"
    /\ \E r \in bedrock_ret : r.text = None
    /\ pc' = IF Len(trace) < 2 THEN "invoke" ELSE "fallback"
    /\ UNCHANGED <<others, config, caller, item, exc, bedrock_ret,
                   raw_text, returned, raised, trace, log>>

\* bedrock_summarize returned no text: on to the extractive fallback.
RemoteTextMissing ==
    /\ pc = "bedrock_return"
    /\ caller = "summarize"
    /\ \E r \in bedrock_ret : r.text = None
    /\ pc' = "fallback"
    /\ UNCHANGED <<others, config, caller, item, exc, bedrock_ret,
                   raw_text, returned, raised, trace, log>>

\* summary = self.format_summary(summary_text) with the generation metadata.
FormatRemote ==
    /\ pc = "format_remote"
    /\ \E raw \in raw_text, r \in bedrock_ret :
          returned' = Some(WithMeta(format_summary(raw), model_id, r.tokens,
                                    r.response_time_ms))
    /\ trace' = Append(trace, "format_summary")
    /\ log' = Append(log, "info:bedrock_summary")
    /\ pc' = "done"
    /\ UNCHANGED <<others, config, caller, item, exc, bedrock_ret,
                   raw_text, raised>>

\* Fallback summarizing item.title for item.content.
Fallback_UsesTitle ==
    /\ pc = "fallback"
    /\ raw_text' = Some(fallback_summarize(item.title, item.link))
    /\ trace' = Append(trace, "fallback_summarize")
    /\ log' = Append(log, "info:using_fallback")
    /\ pc' = "format_fallback"
    /\ UNCHANGED <<others, config, caller, item, exc, bedrock_ret,
                   returned, raised>>

\* summary_text = self.fallback_summarize(item.content, item.link)
Fallback ==
    /\ pc = "fallback"
    /\ raw_text' = Some(fallback_summarize(item.content, item.link))
    /\ trace' = Append(trace, "fallback_summarize")
    /\ log' = Append(log, "info:using_fallback")
    /\ pc' = "format_fallback"
    /\ UNCHANGED <<others, config, caller, item, exc, bedrock_ret,
                   returned, raised>>

\* FormatFallback with the metadata of a remote Summary.
FormatFallback_ModelId ==
    /\ pc = "format_fallback"
    /\ \E raw \in raw_text :
          returned' = Some(WithMeta(format_summary(raw), model_id, None, None))
    /\ trace' = Append(trace, "format_summary")
    /\ log' = Append(log, "info:fallback_summary")
    /\ pc' = "done"
    /\ UNCHANGED <<others, config, caller, item, exc, bedrock_ret,
                   raw_text, raised>>

\* summary = self.format_summary(summary_text) with the fallback metadata.
FormatFallback ==
    /\ pc = "format_fallback"
    /\ \E raw \in raw_text :
          returned' = Some(WithMeta(format_summary(raw), ModelUsedFallback, None, None))
    /\ trace' = Append(trace, "format_summary")
    /\ log' = Append(log, "info:fallback_summary")
    /\ pc' = "done"
    /\ UNCHANGED <<others, config, caller, item, exc, bedrock_ret,
                   raw_text, raised>>

\* except Exception: the error is logged and the emergency Summary is
\* constructed; a TypeError of the constructor leaves summarize.
HandleException ==
    /\ pc = "except"
    /\ log' = Append(log, "error:error_in_summarization")
    /\ IF SummaryInitRaises(EmergencyKwargs(item))
       THEN raised' = Some("TypeError") /\ returned' = returned
       ELSE returned' = Some(EmergencyKwargs(item)) /\ raised' = raised
    /\ pc' = "done"
    /\ UNCHANGED <<others, config, caller, item, exc, bedrock_ret,
                   raw_text, trace>>

\* The caller has taken the outcome; the summarizer is ready for the next call.
Return ==
    /\ pc = "done"
    /\ pc' = "idle"
    /\ caller' = "none"
    /\ item' = NoItem
    /\ exc' = None
    /\ bedrock_ret' = None
    /\ raw_text' = None
    /\ returned' = None
    /\ raised' = None
    /\ trace' = << >>
    /\ log' = << >>
    /\ UNCHANGED <<others, config>>

\* ---------------------------------------------------------------------------
\* Summarizer.bedrock_summarize (summarize.py:164-294)
\* ---------------------------------------------------------------------------

\* bedrock_summarize(content, url) is called from outside summarize.
BedrockSummarizeCall(content, url) ==
    /\ pc = "idle"
    /\ pc' = "bedrock_entry"
    /\ caller' = "direct"
    /\ item' = [title |-> << >>, content |-> content, link |-> url]
    /\ UNCHANGED <<others, config, exc, bedrock_ret, raw_text,
                   returned, raised, trace, log>>

\* if not self.bedrock_client: return None, None, None
BedrockNoClient ==
    /\ pc = "bedrock_entry"
    /\ ~bedrock_client
    /\ bedrock_ret' = Some(NoResult)
    /\ log' = Append(log, "warning:client_unavailable")
    /\ pc' = "bedrock_return"
    /\ UNCHANGED <<others, config, caller, item, exc, raw_text,
                   returned, raised, trace>>

\* prompt = self.prompt_template.format(content=content, url=url), before the
\* try block: it succeeds and the request is prepared.
ComposePrompt ==
    /\ pc = "bedrock_entry"
    /\ bedrock_client
    /\ ~PromptFormatRaises(prompt_template)
    /\ log' = log \o <<IF IsLlama(model_id) THEN "info:using_llama" ELSE "info:using_nova",
                       "info:calling_api">>
    /\ pc' = "invoke"
    /\ UNCHANGED <<others, config, caller, item, exc, bedrock_ret,
                   raw_text, returned, raised, trace>>

\* The same statement raises KeyError: the exception leaves bedrock_summarize,
\* into summarize's except block or to the outside caller.
ComposePromptRaises ==
    /\ pc = "bedrock_entry"
    /\ bedrock_client
    /\ PromptFormatRaises(prompt_template)
    /\ exc' = Some("KeyError")
    /\ IF caller = "summarize"
       THEN pc' = "except" /\ raised' = raised
       ELSE pc' = "done" /\ raised' = Some("KeyError")
    /\ UNCHANGED <<others, config, caller, item, bedrock_ret,
                   raw_text, returned, trace, log>>

\* InvokeRaises with an except ClientError branch that re-raises the codes it
\* does not know.
InvokeRaises_Reraise(e) ==
    /\ pc = "invoke"
    /\ trace' = Append(trace, "invoke_model")
    /\ log' = log \o InvokeErrorLog(e)
    /\ IF e \in ClientErrorCodes \ {"AccessDeniedException", "ValidationException"}
       THEN /\ exc' = Some("ClientError")
            /\ bedrock_ret' = bedrock_ret
            /\ pc' = IF caller = "summarize" THEN "except" ELSE "done"
            /\ raised' = IF caller = "summarize" THEN raised ELSE Some("ClientError")
       ELSE /\ bedrock_ret' = Some(NoResult)
            /\ pc' = "bedrock_return"
            /\ UNCHANGED <<exc, raised>>
    /\ UNCHANGED <<others, config, caller, item, raw_text, returned>>

\* self.bedrock_client.invoke_model(...) or the decoding of its body raises: the
\* except branches log the cause and return (None, None, None).
InvokeRaises(e) ==
    /\ pc = "invoke"
    /\ trace' = Append(trace, "invoke_model")
    /\ log' = log \o InvokeErrorLog(e)
    /\ bedrock_ret' = Some(NoResult)
    /\ pc' = "bedrock_return"
    /\ UNCHANGED <<others, config, caller, item, exc, raw_text, returned, raised>>

\* invoke_model returns a body after ms milliseconds; the body is parsed by
\* model family and the result is returned.
InvokeReturns(body, ms) ==
    /\ pc = "invoke"
    /\ trace' = Append(trace, "invoke_model")
    /\ LET r == BedrockResult(model_id, body, ms)
       IN  /\ bedrock_ret' = Some(r.ret)
           /\ log' = log \o <<ResponseKeysLog(body)>> \o r.log
    /\ pc' = "bedrock_return"
    /\ UNCHANGED <<others, config, caller, item, exc, raw_text, returned, raised>>

\* bedrock_summarize returns to its outside caller.
BedrockReturnsDirect ==
    /\ pc = "bedrock_return"
    /\ caller = "direct"
    /\ pc' = "done"
    /\ UNCHANGED <<others, config, caller, item, exc, bedrock_ret,
                   raw_text, returned, raised, trace, log>>

Next ==
    \/ \E it \in Items : Summarize(it)
    \/ TryBedrock
    \/ SkipBedrock
    \/ RemoteTextAccepted
    \/ RemoteTextMissing
    \/ FormatRemote
    \/ Fallback
    \/ FormatFallback
    \/ HandleException
    \/ Return
    \/ \E content \in ItemContents, url \in ItemLinks : BedrockSummarizeCall(content, url)
    \/ BedrockNoClient
    \/ ComposePrompt
    \/ ComposePromptRaises
    \/ \E e \in InvokeExceptions : InvokeRaises(e)
    \/ \E body \in ResponseBodies, ms \in ElapsedValues : InvokeReturns(body, ms)
    \/ BedrockReturnsDirect

Spec == Init /\ [][Next]_vars

\* ---------------------------------------------------------------------------
\* format_summary on its own: every raw text of up to MaxPieces pieces
\* ---------------------------------------------------------------------------

\* The number of pieces a raw text is built from.
MaxPieces == 4

\* The pieces raw texts are built from, each one or two lines:
\*   1. a bare title label
\*   2. a plain line of 11 words
\*   3. two bullet lines, one with each marker
\*   4. a dash bullet of 31 words
\*   5. a bullet marker with no text
\*   6. a why-it-matters line of 21 words
\*   7. a why-it-matters label in upper case, with no text
\*   8. a source line
RawPieces ==
    <<
      <<"T","i","t","o","l","o",":">>,
      <<"t"," ","t"," ","t"," ","t"," ","t"," ","t"," ","t"," ","t"," ","t"," ","t"," ","t">>,
      <<"BULLET"," ","A","\n","-"," ","C">>,
      <<"-"," ","b"," ","b"," ","b"," ","b"," ","b"," ","b"," ","b"," ","b"," ","b"," ","b"," ",
        "b"," ","b"," ","b"," ","b"," ","b"," ","b"," ","b"," ","b"," ","b"," ","b"," ","b"," ",
        "b"," ","b"," ","b"," ","b"," ","b"," ","b"," ","b"," ","b"," ","b"," ","b">>,
      <<"BULLET">>,
      <<"P","e","r","c","h","e_acute"," ","c","o","n","t","a",":"," ","y"," ","y"," ","y"," ",
        "y"," ","y"," ","y"," ","y"," ","y"," ","y"," ","y"," ","y"," ","y"," ","y"," ","y"," ",
        "y"," ","y"," ","y"," ","y"," ","y"," ","y"," ","y">>,
      <<"W","H","Y"," ","I","T"," ","M","A","T","T","E","R","S",":">>,
      <<" ","F","o","n","t","e",":"," ","u">>
    >>

PieceSeqs(n) == UNION {[1..k -> 1..Len(RawPieces)] : k \in 0..n}

\* "\n".join(pieces)
RawTexts ==
    {Join([i \in DOMAIN f |-> RawPieces[f[i]]], <<"\n">>) : f \in PieceSeqs(MaxPieces)}

\* format_summary(raw) is about to be called on a summarizer.
InitFormat ==
    /\ bedrock_client = FALSE
    /\ prompt_template = DefaultTemplate
    /\ model_id = NovaModelId
    /\ pc = "format_call"
    /\ caller = "format_summary"
    /\ item = NoItem
    /\ exc = None
    /\ bedrock_ret = None
    /\ raw_text \in {Some(raw) : raw \in RawTexts}
    /\ returned = None
    /\ raised = None
    /\ trace = << >>
    /\ log = << >>
    /\ TelegramIdle
    /\ HandlerIdle

\* The call runs and returns its Summary.
FormatSummaryCall ==
    /\ pc = "format_call"
    /\ \E raw \in raw_text : returned' = Some(format_summary(raw))
    /\ trace' = Append(trace, "format_summary")
    /\ pc' = "done"
    /\ UNCHANGED <<others, config, caller, item, exc, bedrock_ret, raw_text, raised, log>>

NextFormat == FormatSummaryCall

SpecFormat == InitFormat /\ [][NextFormat]_vars

\* ---------------------------------------------------------------------------
\* format_summary on texts with why-it-matters lines: every raw text of up to
\* MaxLines lines
\* ---------------------------------------------------------------------------

\* The number of lines of a raw text.
MaxLines == 3

\* The lines the raw texts are built from:
\*   1. a plain line
\*   2. a bullet line
\*   3. a capitalised "Perché ti può interessare:" line
\*   4. a lower-case "perché conta:" line of 21 words
\*   5. an upper-case "WHY IT MATTERS:" line
\*   6. a source line
LabelLines ==
    <<
      <<"t"," ","t">>,
      <<"BULLET"," ","A">>,
      <<"P","e","r","c","h","e_acute"," ","t","i"," ","p","u","o_grave"," ","i","n","t","e","r",
        "e","s","s","a","r","e",":"," ","v"," ","v">>,
      <<"p","e","r","c","h","e_acute"," ","c","o","n","t","a",":"," ","y"," ","y"," ","y"," ",
        "y"," ","y"," ","y"," ","y"," ","y"," ","y"," ","y"," ","y"," ","y"," ","y"," ","y"," ",
        "y"," ","y"," ","y"," ","y"," ","y"," ","y"," ","y">>,
      <<"W","H","Y"," ","I","T"," ","M","A","T","T","E","R","S",":"," "," ","w">>,
      <<"F","o","n","t","e",":"," ","u">>
    >>

LabelTexts ==
    {Join([i \in DOMAIN f |-> LabelLines[f[i]]], <<"\n">>) :
        f \in UNION {[1..k -> 1..Len(LabelLines)] : k \in 0..MaxLines}}

\* format_summary(raw) is about to be called on such a text.
InitLabels ==
    /\ bedrock_client = FALSE
    /\ prompt_template = DefaultTemplate
    /\ model_id = NovaModelId
    /\ pc = "format_call"
    /\ caller = "format_summary"
    /\ item = NoItem
    /\ exc = None
    /\ bedrock_ret = None
    /\ raw_text \in {Some(raw) : raw \in LabelTexts}
    /\ returned = None
    /\ raised = None
    /\ trace = << >>
    /\ log = << >>
    /\ TelegramIdle
    /\ HandlerIdle

NextLabels == FormatSummaryCall

SpecLabels == InitLabels /\ [][NextLabels]_vars

\* ---------------------------------------------------------------------------
\* summarize on the extractive path: a summarizer without a client, and
\* contents of up to MaxSentences sentences
\* ---------------------------------------------------------------------------

\* The number of sentences of a content.
MaxSentences == 16

Alphabet ==
    <<"a","b","c","d","e","f","g","h","i","j","k","l","m",
      "n","o","p","q","r","s","t","u","v","w","x","y","z">>

\* Sentence number i of a content, of len characters: words of up to three
\* letters, the first one beginning with the i-th letter.
Sentence(i, len) ==
    [k \in 1..len |-> IF k = 1 THEN Alphabet[i] ELSE IF k % 4 = 0 THEN " " ELSE "x"]

\* The length of the ordinary sentences of a content, and the lengths its one
\* longer sentence can have: 7, 19 and 26 words.
SentenceLengths == [short |-> 25, long |-> {75, 101}]

\* n sentences, each closed by a full stop, the p-th one (if there is one)
\* longer.
PlainContent(n, p, long) ==
    Join([i \in 1..n |-> Sentence(i, IF i = p THEN long ELSE SentenceLengths.short)],
         <<".", " ">>) \o <<".">>

\* A sentence that begins with a title label, then an ordinary sentence.
LabelledContent ==
    <<"T","i","t","l","e",":"," ">> \o Sentence(1, 25) \o <<".", " ">> \o Sentence(2, 25)
      \o <<".">>

\* A sentence of 32 words between two ordinary ones.
WordyContent ==
    Sentence(1, 25) \o <<".", " ">> \o Sentence(2, 125) \o <<"!", " ">> \o Sentence(3, 25)
      \o <<"?">>

ExtractiveContents ==
    {PlainContent(n, p, long) : n \in 1..MaxSentences, p \in 0..MaxSentences,
                                long \in SentenceLengths.long}
      \cup {LabelledContent, WordyContent}

ExtractiveItems ==
    {[title |-> <<"t">>, content |-> c, link |-> <<"u">>] : c \in ExtractiveContents}

\* A summarizer whose boto3 client could not be created.
InitExtractive ==
    /\ bedrock_client = FALSE
    /\ prompt_template = DefaultTemplate
    /\ model_id = NovaModelId
    /\ pc = "idle"
    /\ CallIdle
    /\ TelegramIdle
    /\ HandlerIdle

NextExtractive ==
    \/ \E it \in ExtractiveItems : Summarize(it)
    \/ SkipBedrock
    \/ Fallback
    \/ FormatFallback
    \/ Return

SpecExtractive == InitExtractive /\ [][NextExtractive]_vars

\* ---------------------------------------------------------------------------
\* TelegramPublisher.send_message and _send_telegram_message
\* (telegram.py:30-66, 102-208)
\* ---------------------------------------------------------------------------

\* The largest retry_attempts of a configuration.
MaxRetryAttempts == 3

RetryAttemptsValues == 0..MaxRetryAttempts

\* The values of backoff_factor.
BackoffFactors == {1, 2, 3}

\* urlopen returns a response with a status other than 200.
OtherStatuses == {"204"}

\* urlopen (or anything else in the try block of the loop) raises: an HTTPError
\* with a code other than 429, a URLError, or another exception.
RequestErrors == {"HTTPError:400", "HTTPError:500", "URLError", "Exception"}

\* A summarizer that is not in use.
SummarizerIdle ==
    /\ bedrock_client = FALSE
    /\ prompt_template = DefaultTemplate
    /\ model_id = NovaModelId
    /\ pc = "idle"
    /\ CallIdle

\* A publisher with its configuration, before any send.
InitTelegram ==
    /\ SummarizerIdle
    /\ HandlerIdle
    /\ retry_attempts \in RetryAttemptsValues
    /\ backoff_factor \in BackoffFactors
    /\ SendIdle

\* send_message(summary, original_link, source_url) is called: the try block
\* starts with the log record and format_message.
SendMessage ==
    /\ t_pc = "idle"
    /\ t_caller' = "send_message"
    /\ t_pc' = "format"
    /\ UNCHANGED <<retry_attempts, backoff_factor, attempt, requests, sleeps, sent,
                   send_result, summarizer_vars, handler_vars>>

\* message = self.format_message(...); self._send_telegram_message(message)
FormatMessage ==
    /\ t_pc = "format"
    /\ t_pc' = "loop"
    /\ UNCHANGED <<retry_attempts, backoff_factor, t_caller, attempt, requests, sleeps, sent,
                   send_result, summarizer_vars, handler_vars>>

\* Something raises in the try block before the request: except Exception
\* logs it and returns False.
FormatMessageRaises ==
    /\ t_pc = "format"
    /\ send_result' = Some(FALSE)
    /\ t_pc' = "done"
    /\ UNCHANGED <<retry_attempts, backoff_factor, t_caller, attempt, requests, sleeps, sent,
                   summarizer_vars, handler_vars>>

\* _send_telegram_message(message) is called on its own.
SendTelegramMessageCall ==
    /\ t_pc = "idle"
    /\ t_caller' = "direct"
    /\ t_pc' = "loop"
    /\ UNCHANGED <<retry_attempts, backoff_factor, attempt, requests, sleeps, sent,
                   send_result, summarizer_vars, handler_vars>>

\* range(self.config.retry_attempts) is exhausted: the final return False.
LoopExhausted ==
    /\ t_pc = "loop"
    /\ attempt >= retry_attempts
    /\ sent' = Some(FALSE)
    /\ t_pc' = "returned"
    /\ UNCHANGED <<retry_attempts, backoff_factor, t_caller, attempt, requests, sleeps,
                   send_result, summarizer_vars, handler_vars>>

\* urlopen returns a response with status 200: return True.
RequestSucceeds ==
    /\ t_pc = "loop"
    /\ attempt < retry_attempts
    /\ requests' = Append(requests, "200")
    /\ sent' = Some(TRUE)
    /\ t_pc' = "returned"
    /\ UNCHANGED <<retry_attempts, backoff_factor, t_caller, attempt, sleeps,
                   send_result, summarizer_vars, handler_vars>>

\* urlopen returns a response with another status: return False.
RequestOtherStatus(status) ==
    /\ t_pc = "loop"
    /\ attempt < retry_attempts
    /\ requests' = Append(requests, status)
    /\ sent' = Some(FALSE)
    /\ t_pc' = "returned"
    /\ UNCHANGED <<retry_attempts, backoff_factor, t_caller, attempt, sleeps,
                   send_result, summarizer_vars, handler_vars>>

\* RequestRateLimited that does not count the attempt: one request more than
\* retry_attempts can be made.
RequestRateLimited_Unbounded ==
    /\ t_pc = "loop"
    /\ attempt < retry_attempts
    /\ requests' = Append(requests, "429")
    /\ IF Len(requests) < retry_attempts
       THEN /\ t_pc' = "loop"
            /\ sent' = sent
       ELSE /\ t_pc' = "returned"
            /\ sent' = Some(FALSE)
    /\ UNCHANGED <<retry_attempts, backoff_factor, t_caller, attempt, sleeps,
                   send_result, summarizer_vars, handler_vars>>

\* urlopen raises HTTPError 429: back off and go on if attempts remain, else
\* return False.
RequestRateLimited ==
    /\ t_pc = "loop"
    /\ attempt < retry_attempts
    /\ requests' = Append(requests, "429")
    /\ IF attempt < retry_attempts - 1
       THEN /\ t_pc' = "backoff"
            /\ sent' = sent
       ELSE /\ t_pc' = "returned"
            /\ sent' = Some(FALSE)
    /\ UNCHANGED <<retry_attempts, backoff_factor, t_caller, attempt, sleeps,
                   send_result, summarizer_vars, handler_vars>>

\* RequestFails with a `continue` for HTTP errors: the next attempt follows.
RequestFails_Retries(e) ==
    /\ t_pc = "loop"
    /\ attempt < retry_attempts
    /\ requests' = Append(requests, e)
    /\ attempt' = attempt + 1
    /\ t_pc' = "loop"
    /\ UNCHANGED <<retry_attempts, backoff_factor, t_caller, sleeps, sent,
                   send_result, summarizer_vars, handler_vars>>

\* urlopen raises another HTTPError, a URLError or another exception: return
\* False.
RequestFails(e) ==
    /\ t_pc = "loop"
    /\ attempt < retry_attempts
    /\ requests' = Append(requests, e)
    /\ sent' = Some(FALSE)
    /\ t_pc' = "returned"
    /\ UNCHANGED <<retry_attempts, backoff_factor, t_caller, attempt, sleeps,
                   send_result, summarizer_vars, handler_vars>>

\* handle_rate_limit with a fixed wait of backoff_factor.
handle_rate_limit_Fixed ==
    /\ t_pc = "backoff"
    /\ sleeps' = Append(sleeps, backoff_factor)
    /\ attempt' = attempt + 1
    /\ t_pc' = "loop"
    /\ UNCHANGED <<retry_attempts, backoff_factor, t_caller, requests, sent,
                   send_result, summarizer_vars, handler_vars>>

\* handle_rate_limit(attempt): time.sleep(backoff_factor ** attempt); continue.
handle_rate_limit ==
    /\ t_pc = "backoff"
    /\ sleeps' = Append(sleeps, backoff_factor ^ attempt)
    /\ attempt' = attempt + 1
    /\ t_pc' = "loop"
    /\ UNCHANGED <<retry_attempts, backoff_factor, t_caller, requests, sent,
                   send_result, summarizer_vars, handler_vars>>

\* success = self._send_telegram_message(message); return success
SendMessageReturns ==
    /\ t_pc = "returned"
    /\ t_caller = "send_message"
    /\ send_result' = sent
    /\ t_pc' = "done"
    /\ UNCHANGED <<retry_attempts, backoff_factor, t_caller, attempt, requests, sleeps, sent,
                   summarizer_vars, handler_vars>>

\* _send_telegram_message returns to its outside caller.
SendTelegramMessageReturns ==
    /\ t_pc = "returned"
    /\ t_caller = "direct"
    /\ t_pc' = "done"
    /\ UNCHANGED <<retry_attempts, backoff_factor, t_caller, attempt, requests, sleeps, sent,
                   send_result, summarizer_vars, handler_vars>>

\* The caller has taken the result; the publisher is ready for the next send.
SendDone ==
    /\ t_pc = "done"
    /\ t_pc' = "idle"
    /\ t_caller' = "none"
    /\ attempt' = 0
    /\ requests' = << >>
    /\ sleeps' = << >>
    /\ sent' = None
    /\ send_result' = None
    /\ UNCHANGED <<retry_attempts, backoff_factor, summarizer_vars, handler_vars>>

NextTelegram ==
    \/ SendMessage
    \/ FormatMessage
    \/ FormatMessageRaises
    \/ SendTelegramMessageCall
    \/ LoopExhausted
    \/ RequestSucceeds
    \/ \E status \in OtherStatuses : RequestOtherStatus(status)
    \/ RequestRateLimited
    \/ \E e \in RequestErrors : RequestFails(e)
    \/ handle_rate_limit
    \/ SendMessageReturns
    \/ SendTelegramMessageReturns
    \/ SendDone

SpecTelegram == InitTelegram /\ [][NextTelegram]_vars

\* ---------------------------------------------------------------------------
\* lambda_handler (lambda_handler.py) with the Deduplicator (dedup.py)
\* ---------------------------------------------------------------------------

\* The largest number of feed URLs in FEEDS.
MaxFeeds == 2

\* What parse_feed does for one feed URL: it raises, or it returns the items
\* of the feed, each named by the id generate_item_id gives it.
FeedResults ==
    { [raises |-> TRUE, items |-> << >>],
      [raises |-> FALSE, items |-> << >>],
      [raises |-> FALSE, items |-> <<"a">>],
      [raises |-> FALSE, items |-> <<"a", "b">>] }

\* get_feed_urls returns a non-empty list (it raises on an empty one).
FeedLists == UNION {[1..n -> FeedResults] : n \in 1..MaxFeeds}

\* What send_cloudwatch_metrics meets inside its try block.
MetricsOutcomes == {"sent", "failed"}

\* The variables of the components the handler calls.
components == <<summarizer_vars, telegram_vars>>

\* The handler of a deployment before its first invocation.
InitHandler ==
    /\ SummarizerIdle
    /\ TelegramIdle
    /\ HandlerIdle

\* metrics["errors"].append(error_msg)
WithError(m, kind) == [m EXCEPT !.errors = Append(@, kind)]

\* metrics[key] += 1
Incremented(m, key) == [m EXCEPT ![key] = @ + 1]

\* The item the loop over all_items stands at.
CurrentItem == all_items[item_idx]

\* lambda_handler(event, context) is invoked: metrics is initialized.
Invoke(feed_results) ==
    /\ h_pc = "idle"
    /\ feeds' = feed_results
    /\ metrics' = NoMetrics
    /\ h_pc' = "init"
    /\ UNCHANGED <<store, feed_idx, all_items, item_idx, present, ops, cw_calls, critical,
                   response, components, delivery>>

\* Config(), get_feed_urls(), the components and the Telegram token are set up.
InitializeComponents ==
    /\ h_pc = "init"
    /\ h_pc' = "feeds"
    /\ UNCHANGED <<feeds, store, feed_idx, all_items, item_idx, present, metrics, ops,
                   cw_calls, critical, response, components, delivery>>

\* InitializeRaises without the outer except clause's return: the run goes
\* on to the feeds after recording the error.
InitializeRaises_GoesOn ==
    /\ h_pc = "init"
    /\ critical' = Some("init")
    /\ metrics' = WithError(metrics, "critical")
    /\ h_pc' = "feeds"
    /\ UNCHANGED <<feeds, store, feed_idx, all_items, item_idx, present, ops,
                   cw_calls, response, components, delivery>>

\* Something raises during the set-up (no FEEDS, no secret, an empty token):
\* the outer except clause catches it.
InitializeRaises ==
    /\ h_pc = "init"
    /\ critical' = Some("init")
    /\ h_pc' = "critical"
    /\ UNCHANGED <<feeds, store, feed_idx, all_items, item_idx, present, metrics, ops,
                   cw_calls, response, components, delivery>>

\* parse_feed returns: all_items.extend(items); metrics["feeds_processed"] += 1
ParseFeedReturns ==
    /\ h_pc = "feeds"
    /\ feed_idx <= Len(feeds)
    /\ ~feeds[feed_idx].raises
    /\ all_items' = all_items \o feeds[feed_idx].items
    /\ metrics' = Incremented(metrics, "feeds_processed")
    /\ feed_idx' = feed_idx + 1
    /\ UNCHANGED <<h_pc, feeds, store, item_idx, present, ops, cw_calls, critical,
                   response, components, delivery>>

\* ParseFeedRaises without the try block around parse_feed: the exception
\* reaches the outer except clause.
ParseFeedRaises_Aborts ==
    /\ h_pc = "feeds"
    /\ feed_idx <= Len(feeds)
    /\ feeds[feed_idx].raises
    /\ critical' = Some("feed")
    /\ h_pc' = "critical"
    /\ UNCHANGED <<feeds, store, feed_idx, all_items, item_idx, present, metrics, ops,
                   cw_calls, response, components, delivery>>

\* parse_feed raises: the error is recorded and the loop continues.
ParseFeedRaises ==
    /\ h_pc = "feeds"
    /\ feed_idx <= Len(feeds)
    /\ feeds[feed_idx].raises
    /\ metrics' = WithError(metrics, "feed")
    /\ feed_idx' = feed_idx + 1
    /\ UNCHANGED <<h_pc, feeds, store, all_items, item_idx, present, ops, cw_calls,
                   critical, response, components, delivery>>

\* The loop over feed_urls ends: metrics["items_found"] = len(all_items)
FeedsDone ==
    /\ h_pc = "feeds"
    /\ feed_idx > Len(feeds)
    /\ metrics' = [metrics EXCEPT !.items_found = Len(all_items)]
    /\ h_pc' = "items"
    /\ UNCHANGED <<feeds, store, feed_idx, all_items, item_idx, present, ops, cw_calls,
                   critical, response, components, delivery>>

\* is_duplicate whose answer the handler does not act on: the item is
\* processed whatever the table holds.
IsDuplicateReturns_NoSkip ==
    /\ h_pc = "items"
    /\ item_idx <= Len(all_items)
    /\ present' = Some(CurrentItem \in store)
    /\ ops' = <<"is_duplicate:answered">>
    /\ h_pc' = "store"
    /\ UNCHANGED <<feeds, store, feed_idx, all_items, item_idx, metrics, cw_calls, critical,
                   response, components, delivery>>

\* is_duplicate(item_id): get_item answers. An id in the table is a duplicate:
\* metrics["items_deduplicated"] += 1; continue. Otherwise the item goes on.
IsDuplicateReturns ==
    /\ h_pc = "items"
    /\ item_idx <= Len(all_items)
    /\ present' = Some(CurrentItem \in store)
    /\ ops' = <<"is_duplicate:answered">>
    /\ IF CurrentItem \in store
       THEN /\ metrics' = Incremented(metrics, "items_deduplicated")
            /\ item_idx' = item_idx + 1
            /\ h_pc' = "items"
       ELSE /\ h_pc' = "store"
            /\ UNCHANGED <<metrics, item_idx>>
    /\ UNCHANGED <<feeds, store, feed_idx, all_items, cw_calls, critical, response,
                   components, delivery>>

\* IsDuplicateClientError with an is_duplicate that lets the ClientError
\* through: the except clause of the item records the error.
IsDuplicateClientError_Raises ==
    /\ h_pc = "items"
    /\ item_idx <= Len(all_items)
    /\ present' = Some(CurrentItem \in store)
    /\ ops' = <<"is_duplicate:ClientError">>
    /\ metrics' = WithError(metrics, "item")
    /\ item_idx' = item_idx + 1
    /\ UNCHANGED <<h_pc, feeds, store, feed_idx, all_items, cw_calls, critical, response,
                   components, delivery>>

\* get_item raises ClientError: is_duplicate logs it and returns False, so the
\* item goes on as a new one.
IsDuplicateClientError ==
    /\ h_pc = "items"
    /\ item_idx <= Len(all_items)
    /\ present' = Some(CurrentItem \in store)
    /\ ops' = <<"is_duplicate:ClientError">>
    /\ h_pc' = "store"
    /\ UNCHANGED <<feeds, store, feed_idx, all_items, item_idx, metrics, cw_calls, critical,
                   response, components, delivery>>

\* get_item raises another exception: is_duplicate lets it through and the
\* except clause of the item records the error.
IsDuplicateRaises ==
    /\ h_pc = "items"
    /\ item_idx <= Len(all_items)
    /\ present' = Some(CurrentItem \in store)
    /\ ops' = <<"is_duplicate:raised">>
    /\ metrics' = WithError(metrics, "item")
    /\ item_idx' = item_idx + 1
    /\ UNCHANGED <<h_pc, feeds, store, feed_idx, all_items, cw_calls, critical, response,
                   components, delivery>>

\* StoreItemReturns with a store_item that writes nothing: the table is left
\* as it was.
StoreItemReturns_NoWrite ==
    /\ h_pc = "store"
    /\ ops' = Append(ops, "store_item:returned")
    /\ h_pc' = "summarize"
    /\ UNCHANGED <<feeds, store, feed_idx, all_items, item_idx, present, metrics, cw_calls,
                   critical, response, components, delivery>>

\* store_item(item_id, item): put_item writes the id.
StoreItemReturns ==
    /\ h_pc = "store"
    /\ store' = store \union {CurrentItem}
    /\ ops' = Append(ops, "store_item:returned")
    /\ h_pc' = "summarize"
    /\ UNCHANGED <<feeds, feed_idx, all_items, item_idx, present, metrics, cw_calls,
                   critical, response, components, delivery>>

\* StoreItemRaises with a store_item that swallows the error: the item goes on
\* to the summarizer.
StoreItemRaises_Ignored ==
    /\ h_pc = "store"
    /\ ops' = Append(ops, "store_item:raised")
    /\ h_pc' = "summarize"
    /\ UNCHANGED <<feeds, store, feed_idx, all_items, item_idx, present, metrics, cw_calls,
                   critical, response, components, delivery>>

\* put_item raises: store_item re-raises and the item's error is recorded.
StoreItemRaises ==
    /\ h_pc = "store"
    /\ ops' = Append(ops, "store_item:raised")
    /\ metrics' = WithError(metrics, "item")
    /\ item_idx' = item_idx + 1
    /\ h_pc' = "items"
    /\ UNCHANGED <<feeds, store, feed_idx, all_items, present, cw_calls, critical,
                   response, components, delivery>>

\* summarizer.summarize(item) returns: metrics["items_summarized"] += 1
SummarizeReturns ==
    /\ h_pc = "summarize"
    /\ ops' = Append(ops, "summarize:returned")
    /\ metrics' = Incremented(metrics, "items_summarized")
    /\ h_pc' = "send"
    /\ UNCHANGED <<feeds, store, feed_idx, all_items, item_idx, present, cw_calls,
                   critical, response, components, delivery>>

\* summarizer.summarize(item) raises: the item's error is recorded.
SummarizeRaises ==
    /\ h_pc = "summarize"
    /\ ops' = Append(ops, "summarize:raised")
    /\ metrics' = WithError(metrics, "item")
    /\ item_idx' = item_idx + 1
    /\ h_pc' = "items"
    /\ UNCHANGED <<feeds, store, feed_idx, all_items, present, cw_calls, critical,
                   response, components, delivery>>

\* send_message returns True: metrics["messages_sent"] += 1
SendMessageTrue ==
    /\ h_pc = "send"
    /\ delivery' = [delivery EXCEPT ![CurrentItem] = "delivered"]
    /\ ops' = Append(ops, "send_message:True")
    /\ metrics' = Incremented(metrics, "messages_sent")
    /\ item_idx' = item_idx + 1
    /\ h_pc' = "items"
    /\ UNCHANGED <<feeds, store, feed_idx, all_items, present, cw_calls, critical,
                   response, components>>

\* SendMessageFalse without the else branch: the failure leaves no error.
SendMessageFalse_Silent ==
    /\ h_pc = "send"
    /\ delivery' = [delivery EXCEPT ![CurrentItem] = "delivered"]
    /\ ops' = Append(ops, "send_message:False")
    /\ item_idx' = item_idx + 1
    /\ h_pc' = "items"
    /\ UNCHANGED <<feeds, store, feed_idx, all_items, present, metrics, cw_calls, critical,
                   response, components>>

\* send_message returns False: the failure is recorded.
SendMessageFalse ==
    /\ h_pc = "send"
    /\ delivery' = [delivery EXCEPT ![CurrentItem] = "delivered"]
    /\ ops' = Append(ops, "send_message:False")
    /\ metrics' = WithError(metrics, "send")
    /\ item_idx' = item_idx + 1
    /\ h_pc' = "items"
    /\ UNCHANGED <<feeds, store, feed_idx, all_items, present, cw_calls, critical,
                   response, components>>

\* The loop over all_items ends: log_metrics, then send_cloudwatch_metrics.
ItemsDone ==
    /\ h_pc = "items"
    /\ item_idx > Len(all_items)
    /\ h_pc' = "metrics"
    /\ UNCHANGED <<feeds, store, feed_idx, all_items, item_idx, present, metrics, ops,
                   cw_calls, critical, response, components, delivery>>

\* except Exception of lambda_handler: the critical error is recorded, then
\* send_cloudwatch_metrics.
CriticalError ==
    /\ h_pc = "critical"
    /\ metrics' = WithError(metrics, "critical")
    /\ h_pc' = "metrics"
    /\ UNCHANGED <<feeds, store, feed_idx, all_items, item_idx, present, ops, cw_calls,
                   critical, response, components, delivery>>

\* send_cloudwatch_metrics without its except clause: a failure on the way to
\* the 200 response reaches the outer except clause.
SendCloudwatchMetrics_Raises(outcome) ==
    /\ h_pc = "metrics"
    /\ cw_calls' = Append(cw_calls, outcome)
    /\ IF outcome = "failed" /\ critical = None
       THEN /\ critical' = Some("metrics")
            /\ h_pc' = "critical"
       ELSE /\ critical' = critical
            /\ h_pc' = "respond"
    /\ UNCHANGED <<feeds, store, feed_idx, all_items, item_idx, present, metrics, ops,
                   response, components, delivery>>

\* send_cloudwatch_metrics(metrics, region, execution_id): put_metric_data is
\* called, and whatever raises inside the try block is logged and swallowed.
SendCloudwatchMetrics(outcome) ==
    /\ h_pc = "metrics"
    /\ cw_calls' = Append(cw_calls, outcome)
    /\ h_pc' = "respond"
    /\ UNCHANGED <<feeds, store, feed_idx, all_items, item_idx, present, metrics, ops,
                   critical, response, components, delivery>>

\* log_execution_end and the return: statusCode 200 from the try block, 500
\* from the outer except clause.
Respond ==
    /\ h_pc = "respond"
    /\ response' = Some([statusCode |-> IF critical = None THEN 200 ELSE 500,
                         metrics |-> metrics])
    /\ h_pc' = "done"
    /\ UNCHANGED <<feeds, store, feed_idx, all_items, item_idx, present, metrics, ops,
                   cw_calls, critical, components, delivery>>

\* The invocation is over; the table keeps its items for the next one.
HandlerReturn ==
    /\ h_pc = "done"
    /\ h_pc' = "idle"
    /\ feeds' = << >>
    /\ feed_idx' = 1
    /\ all_items' = << >>
    /\ item_idx' = 1
    /\ present' = None
    /\ metrics' = NoMetrics
    /\ ops' = << >>
    /\ cw_calls' = << >>
    /\ critical' = None
    /\ response' = None
    /\ UNCHANGED <<store, components, delivery>>

\* The record of an id expires: store_item writes it with a ttl of 90 days
\* (TTL_DAYS) after the write, and the table deletes a record whose ttl has
\* passed. An invocation is far shorter than the ttl, so the records it relies
\* on last until it returns.
ExpireItem(id) ==
    /\ h_pc = "idle"
    /\ id \in store
    /\ store' = store \ {id}
    /\ delivery' = [delivery EXCEPT ![id] = IF @ = "delivered" THEN "expired" ELSE @]
    /\ UNCHANGED <<h_pc, feeds, feed_idx, all_items, item_idx, present, metrics, ops,
                   cw_calls, critical, response, components>>

NextHandler ==
    \/ \E feed_results \in FeedLists : Invoke(feed_results)
    \/ InitializeComponents
    \/ InitializeRaises
    \/ ParseFeedReturns
    \/ ParseFeedRaises
    \/ FeedsDone
    \/ IsDuplicateReturns
    \/ IsDuplicateClientError
    \/ IsDuplicateRaises
    \/ StoreItemReturns
    \/ StoreItemRaises
    \/ SummarizeReturns
    \/ SummarizeRaises
    \/ SendMessageTrue
    \/ SendMessageFalse
    \/ ItemsDone
    \/ CriticalError
    \/ \E outcome \in MetricsOutcomes : SendCloudwatchMetrics(outcome)
    \/ Respond
    \/ HandlerReturn
    \/ \E id \in ItemIds : ExpireItem(id)

SpecHandler == InitHandler /\ [][NextHandler]_vars

\* The invocations in which every get_item and every put_item succeeds.
NextRuns ==
    \/ \E feed_results \in FeedLists : Invoke(feed_results)
    \/ InitializeComponents
    \/ InitializeRaises
    \/ ParseFeedReturns
    \/ ParseFeedRaises
    \/ FeedsDone
    \/ IsDuplicateReturns
    \/ StoreItemReturns
    \/ SummarizeReturns
    \/ SummarizeRaises
    \/ SendMessageTrue
    \/ SendMessageFalse
    \/ ItemsDone
    \/ CriticalError
    \/ \E outcome \in MetricsOutcomes : SendCloudwatchMetrics(outcome)
    \/ Respond
    \/ HandlerReturn
    \/ \E id \in ItemIds : ExpireItem(id)

SpecRuns == InitHandler /\ [][NextRuns]_vars

\* ---------------------------------------------------------------------------
\* Properties
\* ---------------------------------------------------------------------------

\* The number of times x occurs in seq.
Count(seq, x) == Cardinality({k \in 1..Len(seq) : seq[k] = x})

\* The Summary of the extractive path for a content and a URL.
ExtractiveSummary(content, url) ==
    WithMeta(format_summary(fallback_summarize(content, url)), ModelUsedFallback, None, None)

\* bedrock_summarize handed a text back to summarize.
RemoteTextReturned == \E r \in bedrock_ret : r.text # None

\* summarize has finished, with a Summary or with an exception.
SummarizeDone == pc = "done" /\ caller = "summarize"

\* A line of a raw text that contributes a bullet.
IsBulletLine(line) == line[1] \in BulletMarkers /\ Strip(Tail(line)) # << >>

\* A line of a raw text, not a bullet, that carries a why-it-matters label.
IsWhyLine(line) == line[1] \notin BulletMarkers /\ HasLabel(line, WhyLabels)

\* A line of a raw text, neither bullet nor why-it-matters, that carries a
\* source label.
IsSourceLine(line) ==
    /\ line[1] \notin BulletMarkers
    /\ ~HasLabel(line, WhyLabels)
    /\ HasLabel(line, SourceLabels)

\* The part of a why_it_matters before the appended source.
WhyHead(why) == SubSeq(why, 1, NextIn(why, 1, {"\n"}) - 1)

\* C1: summarize never lets an exception reach its caller: when something is
\* raised inside its try block it logs the error and returns the emergency
\* Summary (title cut to 50 characters plus "...", the three fixed bullets, the
\* fixed why_it_matters, model_used "error").
C1_NeverPropagates ==
    caller = "summarize" =>
        /\ raised = None
        /\ (pc = "done" /\ exc # None) => returned = Some(EmergencyKwargs(item))

\* C2: every Summary returned by summarize has exactly three bullets, whether
\* it was parsed from the remote text or from the extractive text.
C2_ExactlyThreeBullets ==
    \A s \in returned : caller = "summarize" => Len(s.bullets) = 3

\* A Summary was returned for a remote text with more than three bullet lines
\* after its title line.
C2_Witness ==
    /\ SummarizeDone
    /\ returned # None
    /\ \E raw \in raw_text :
        Len(SelectSeq(Tail(SummaryLines(raw)), IsBulletLine)) > 3

\* C3: every Summary returned by summarize has a non-empty title and a
\* non-empty why_it_matters.
C3_TitleAndWhyNonEmpty ==
    \A s \in returned :
        caller = "summarize" => s.title # << >> /\ s.why_it_matters # << >>

\* C4: format_summary returns a title of at most 10 words, bullets of at most 30
\* words each and a why_it_matters whose text before the appended source has at
\* most 20 words, however long the parsed fields are.
C4_WordCaps ==
    \A s \in returned :
        /\ Len(Words(s.title)) <= 10
        /\ \A i \in 1..Len(s.bullets) : Len(Words(s.bullets[i])) <= 30
        /\ Len(Words(WhyHead(s.why_it_matters))) <= 20

\* format_summary returned for a raw text with a title line of more than 10
\* words, a bullet of more than 30, a why-it-matters text of more than 20 and a
\* source line: all three were cut and the source was appended.
C4_Witness ==
    /\ pc = "done"
    /\ caller = "format_summary"
    /\ \E raw \in raw_text, s \in returned :
        LET lines == SummaryLines(raw)
        IN  /\ Len(lines) > 1
            /\ Len(Words(lines[1])) > 10
            /\ Len(Words(s.title)) = 10
            /\ \E k \in 2..Len(lines) :
                IsBulletLine(lines[k]) /\ Len(Words(Tail(lines[k]))) > 30
            /\ \E i \in 1..Len(s.bullets) : Len(Words(s.bullets[i])) = 30
            /\ \E k \in 2..Len(lines) :
                IsWhyLine(lines[k]) /\ Len(Words(StripLabel(lines[k], WhyLabels))) > 20
            /\ Len(Words(WhyHead(s.why_it_matters))) = 20
            /\ Contains(s.why_it_matters, SourceSuffix)

\* The bullet length the Summary model and the property test of the extractive
\* path state.
DocumentedBulletWords == 15

\* C5: every bullet of a Summary that summarize builds on the extractive path
\* (no remote client configured) has at most 15 words.
C5_ExtractiveBulletsAtMost15 ==
    \A s \in returned :
        (caller = "summarize" /\ ~bedrock_client) =>
            \A i \in 1..Len(s.bullets) : Len(Words(s.bullets[i])) <= DocumentedBulletWords

\* C6: whatever keeps the remote call from yielding a text (no client, an
\* access, validation or other service error, any other exception, an empty or
\* absent text in the response), summarize returns the same thing: the
\* extractive Summary of the item, model_used "fallback", no token count and no
\* response time, and raises nothing.
C6_FailuresIndistinguishable ==
    (SummarizeDone /\ (~bedrock_client \/ Count(trace, "invoke_model") > 0)
                   /\ ~RemoteTextReturned) =>
        /\ returned = Some(ExtractiveSummary(item.content, item.link))
        /\ raised = None

\* summarize finished after the remote call was refused with an access error,
\* and after a response without text.
C6_Witness ==
    /\ SummarizeDone
    /\ bedrock_client
    /\ \E k \in 1..Len(log) : log[k] \in {"warning:access_denied", "warning:empty_response",
                                          "error:client_error", "error:unexpected_error"}
    /\ returned = Some(ExtractiveSummary(item.content, item.link))

\* C7: with no remote client configured, summarize never invokes the remote
\* endpoint and its result is a function of the item's content and link alone.
C7_NoClientIsExtractive ==
    ~bedrock_client =>
        /\ Count(trace, "invoke_model") = 0
        /\ SummarizeDone =>
            \E s \in returned :
                /\ s.title = format_summary(fallback_summarize(item.content, item.link)).title
                /\ s.bullets = format_summary(fallback_summarize(item.content, item.link)).bullets
                /\ s.why_it_matters =
                       format_summary(fallback_summarize(item.content, item.link)).why_it_matters

\* summarize finished without a client for an item whose content has sentences
\* to select from.
C7_Witness ==
    /\ SummarizeDone
    /\ ~bedrock_client
    /\ returned # None
    /\ trace = <<"fallback_summarize", "format_summary">>
    /\ Len(Sentences(CleanText(item.content))) > 1

\* C8: one call invokes the remote endpoint at most once; after a failed
\* attempt the extractive fallback runs exactly once, with no second attempt.
C8_SingleRemoteAttempt ==
    /\ Count(trace, "invoke_model") <= 1
    /\ Count(trace, "fallback_summarize") <= 1
    /\ (SummarizeDone /\ Count(trace, "invoke_model") > 0 /\ ~RemoteTextReturned) =>
           trace = <<"invoke_model", "fallback_summarize", "format_summary">>

\* summarize finished after one failed remote attempt followed by the fallback.
C8_Witness ==
    /\ SummarizeDone
    /\ bedrock_ret = Some(NoResult)
    /\ trace = <<"invoke_model", "fallback_summarize", "format_summary">>
    /\ returned # None

\* C9: no exception leaves bedrock_summarize: every failure inside it ends in
\* the (None, None, None) result.
C9_BedrockNeverRaises ==
    /\ exc = None
    /\ (caller = "direct" /\ pc = "done") => (raised = None /\ bedrock_ret # None)

\* The bullets the statement of C10 describes: the non-empty bullet lines of the
\* raw text in order, the first three of them, padded with the placeholder.
C10_StatedBullets(raw) ==
    LET found == SelectSeq(SummaryLines(raw), IsBulletLine)
    IN  [i \in 1..3 |-> IF i <= Len(found) THEN Strip(Tail(found[i])) ELSE PadBullet]

\* C10 as stated: the bullets are the first three non-empty bullet lines of
\* the raw text in order, padded with the placeholder when fewer than three,
\* and why_it_matters is the text that follows its label.
C10_AsStated ==
    \A raw \in raw_text, s \in returned :
        /\ s.bullets = C10_StatedBullets(raw)
        /\ \A k \in 1..Len(SummaryLines(raw)) :
            IsWhyLine(SummaryLines(raw)[k]) =>
                \E j \in 1..Len(SummaryLines(raw)) :
                    /\ IsWhyLine(SummaryLines(raw)[j])
                    /\ s.why_it_matters = StripLabel(SummaryLines(raw)[j], WhyLabels)

\* The bullets of a raw text with at least one non-blank line: the non-empty
\* bullet lines after the first line, each cut to 30 words, the first three of
\* them, padded with the placeholder.
C10_ParsedBullets(raw) ==
    LET found == SelectSeq(Tail(SummaryLines(raw)), IsBulletLine)
    IN  [i \in 1..3 |-> IF i <= Len(found)
                        THEN Join(Take(Words(Tail(found[i])), 30), <<" ">>)
                        ELSE PadBullet]

\* The why_it_matters of a raw text with at least one non-blank line: the text
\* after the label of the last why-it-matters line after the first line, cut
\* to 20 words; the default phrase when there is no such text.
C10_ParsedWhy(raw) ==
    LET found == SelectSeq(Tail(SummaryLines(raw)), IsWhyLine)
        text  == IF found = << >> THEN << >> ELSE StripLabel(found[Len(found)], WhyLabels)
    IN  Join(Take(Words(IF text = << >> THEN DefaultWhy ELSE text), 20), <<" ">>)

\* The "\n\nFonte: <source>" that format_summary appends: the text of the last
\* source line after the first line, if it has one.
C10_ParsedSource(raw) ==
    LET found == SelectSeq(Tail(SummaryLines(raw)), IsSourceLine)
        text  == IF found = << >> THEN << >> ELSE StripLabel(found[Len(found)], SourceLabels)
    IN  IF text = << >> THEN << >> ELSE SourceSuffix \o text

\* C10, amended: for a raw text with at least one non-blank line, the bullets
\* are the non-empty bullet lines that follow the first (title) line, in order,
\* each cut to 30 words: the first three when there are more, and k of them
\* followed by 3 - k placeholders when there are k < 3. why_it_matters is the
\* text after the label of the last why-it-matters line that follows the first
\* line, cut to 20 words (the default phrase when that text is missing or
\* empty), followed by the source when a source line was parsed.
C10_BulletsAndWhy ==
    \A raw \in raw_text, s \in returned :
        SummaryLines(raw) # << >> =>
            /\ s.bullets = C10_ParsedBullets(raw)
            /\ s.why_it_matters = C10_ParsedWhy(raw) \o C10_ParsedSource(raw)

\* format_summary returned for a raw text with a title line, more than three
\* bullet lines and a why-it-matters line with text; and for one with fewer
\* than three.
C10_Witness ==
    /\ pc = "done"
    /\ caller = "format_summary"
    /\ returned # None
    /\ \E raw \in raw_text :
        LET lines == SummaryLines(raw)
        IN  /\ lines # << >>
            /\ ~IsBulletLine(lines[1])
            /\ Len(SelectSeq(Tail(lines), IsBulletLine)) > 3
            /\ \E k \in 2..Len(lines) :
                IsWhyLine(lines[k]) /\ StripLabel(lines[k], WhyLabels) # << >>

\* The only sentence of the text "Short text.".
C11_Sentence ==
    <<"S","h","o","r","t"," ","t","e","x","t">>

\* The item text of the scenario.
C11_Content ==
    <<"S","h","o","r","t"," ","t","e","x","t",".">>

\* C11 as stated: with no remote client and the item text "Short text.", the
\* title is the first 8 words of that sentence, the first bullet is derived
\* from the sentence, the other two bullets are the padding placeholder and
\* why_it_matters is a phrase of the keyword table or the generic phrase.
C11_AsStated ==
    (SummarizeDone /\ ~bedrock_client /\ item.content = C11_Content) =>
        \E s \in returned :
            /\ s.title = Join(Take(Words(C11_Sentence), 8), <<" ">>)
            /\ StartsWith(s.bullets[1], C11_Sentence)
            /\ s.bullets[2] = FallbackPadBullet
            /\ s.bullets[3] = FallbackPadBullet
            /\ WhyHead(s.why_it_matters) \in
                   {KeywordTable[k].phrase : k \in 1..Len(KeywordTable)} \cup {GenericWhy}

\* The fixed "content too short" result, parsed.
C11_Title ==
    <<"C","o","n","t","e","n","u","t","o"," ","b","r","e","v","e"," ","d","i","s","p","o","n",
      "i","b","i","l","e">>

\* Its three bullets.
C11_Bullets ==
    <<
      <<"T","e","s","t","o"," ","t","r","o","p","p","o"," ","b","r","e","v","e"," ","p","e","r",
        " ","i","l"," ","r","i","a","s","s","u","n","t","o">>,
      <<"C","o","n","s","u","l","t","a","r","e"," ","l","'","a","r","t","i","c","o","l","o"," ",
        "c","o","m","p","l","e","t","o">>,
      <<"D","e","t","t","a","g","l","i"," ","n","e","l"," ","l","i","n","k"," ","o","r","i","g",
        "i","n","a","l","e">>
    >>

\* Its why-it-matters.
C11_Why ==
    <<"I","n","f","o","r","m","a","z","i","o","n","i"," ","a","g","g","i","u","n","t","i","v",
      "e"," ","p","o","t","r","e","b","b","e","r","o"," ","e","s","s","e","r","e"," ","i","m",
      "p","o","r","t","a","n","t","i">>

\* C11, amended: with no remote client and the item text "Short text.", whose
\* only sentence has 10 characters and so is not kept, summarize returns the
\* fixed "content too short" Summary: its title, its three bullets and its
\* why-it-matters followed by the source.
C11_ShortTextIsTooShort ==
    (SummarizeDone /\ ~bedrock_client /\ item.content = C11_Content) =>
        returned = Some([title |-> C11_Title,
                         bullets |-> C11_Bullets,
                         why_it_matters |-> C11_Why \o SourceSuffix \o item.link,
                         model_used |-> ModelUsedFallback,
                         tokens_used |-> None,
                         response_time_ms |-> None])

\* summarize finished without a client for the item text "Short text.".
C11_Witness ==
    /\ SummarizeDone
    /\ ~bedrock_client
    /\ item.content = C11_Content
    /\ trace = <<"fallback_summarize", "format_summary">>
    /\ returned # None

\* The content has a tag.
HasTag(content) == \E i \in 1..Len(content) : InTag(content, i)

\* The content is made of tags and whitespace only.
OnlyTagsAndWhitespace(content) ==
    \A i \in 1..Len(content) : content[i] \in Whitespace \/ InTag(content, i)

\* The fixed "content unavailable" result, parsed.
C12_Title ==
    <<"C","o","n","t","e","n","u","t","o"," ","n","o","n"," ","d","i","s","p","o","n","i","b",
      "i","l","e">>

\* Its three bullets.
C12_Bullets ==
    <<
      <<"A","r","t","i","c","o","l","o"," ","v","u","o","t","o"," ","o"," ","n","o","n"," ","l",
        "e","g","g","i","b","i","l","e">>,
      <<"C","o","n","s","u","l","t","a","r","e"," ","i","l"," ","l","i","n","k"," ","o","r","i",
        "g","i","n","a","l","e">>,
      <<"I","n","f","o","r","m","a","z","i","o","n","i"," ","p","o","t","r","e","b","b","e","r",
        "o"," ","e","s","s","e","r","e"," ","d","i","s","p","o","n","i","b","i","l","i"," ","o",
        "n","l","i","n","e">>
    >>

\* Its why-it-matters.
C12_Why ==
    <<"I","l"," ","c","o","n","t","e","n","u","t","o"," ","p","o","t","r","e","b","b","e"," ",
      "c","o","n","t","e","n","e","r","e"," ","i","n","f","o","r","m","a","z","i","o","n","i",
      " ","r","i","l","e","v","a","n","t","i">>

\* C12: when the item text is empty, whitespace only, or tags and whitespace
\* only, the extractive path yields the fixed "content unavailable" Summary:
\* the fixed title, the three fixed bullets and the fixed why-it-matters; only
\* the source that follows it comes from the input.
C12_EmptyContentIsUnavailable ==
    (SummarizeDone /\ Count(trace, "fallback_summarize") > 0
                   /\ OnlyTagsAndWhitespace(item.content)) =>
        \E s \in returned :
            /\ s.title = C12_Title
            /\ s.bullets = C12_Bullets
            /\ s.why_it_matters = C12_Why \o SourceSuffix \o item.link

\* The extractive path ran for a content that is not empty but is empty once its
\* tag is removed and its whitespace stripped.
C12_Witness ==
    /\ SummarizeDone
    /\ Count(trace, "fallback_summarize") > 0
    /\ item.content # << >>
    /\ HasTag(item.content)
    /\ OnlyTagsAndWhitespace(item.content)
    /\ returned # None

\* C13: with a remote client and the default model id, when invoke_model
\* returns a body that carries the contract text under a top-level
\* content[0].text, summarize returns the Summary parsed from that text (its
\* first line as title, its three bullets, the text after "Perche' conta:" as
\* why_it_matters), with the model id as model_used, and not the extractive
\* summary of the item.
C13_ContentOnlyBodyParsed ==
    (SummarizeDone /\ model_id = NovaModelId
                   /\ \E k \in 1..Len(log) : log[k] = ResponseKeysLog(ContentOnlyBody)) =>
        \E s \in returned :
            /\ s.title = <<"T", "i", "t", "l", "e">>
            /\ s.bullets = << <<"A">>, <<"B">>, <<"C">> >>
            /\ s.why_it_matters = <<"X">>
            /\ s.model_used = model_id

\* C14: when the item content has HTML markup, the Summary of the extractive
\* path has no "<" and no ">" in its title, its bullets or its why_it_matters.
C14_NoAngleBrackets ==
    \A s \in returned :
        (caller = "summarize" /\ s.model_used = ModelUsedFallback /\ HasTag(item.content)) =>
            LET Clean(x) == \A i \in 1..Len(x) : x[i] \notin {"<", ">"}
            IN  /\ Clean(s.title)
                /\ \A i \in 1..Len(s.bullets) : Clean(s.bullets[i])
                /\ Clean(WhyHead(s.why_it_matters))

\* The send has come to its result.
SendFinished == t_pc \in {"returned", "done"}

\* C17: send_message never raises and always returns a value. A request that
\* fails with an HTTPError other than 429, a URLError or another exception is
\* not retried: no request follows it (it is the only request when it is the
\* first), and the result is False.
C17_FailedRequestNotRetried ==
    /\ (t_pc = "done" /\ t_caller = "send_message") => send_result # None
    /\ \A k \in 1..Len(requests) :
        requests[k] \in RequestErrors =>
            /\ k = Len(requests)
            /\ SendFinished
            /\ sent = Some(FALSE)
            /\ (t_pc = "done" /\ t_caller = "send_message") => send_result = Some(FALSE)

\* send_message returned False after one request that failed with HTTP 500.
C17_Witness ==
    /\ t_pc = "done"
    /\ t_caller = "send_message"
    /\ requests = <<"HTTPError:500">>
    /\ send_result = Some(FALSE)

\* C18: _send_telegram_message makes at most retry_attempts requests, each
\* one after the first only after a 429 to the one before; it returns True
\* exactly when its last request got status 200, and False when the last
\* allowed request got 429.
C18_BoundedRequests ==
    /\ Len(requests) <= retry_attempts
    /\ attempt = Len(sleeps)
    /\ Len(requests) <= attempt + 1
    /\ \A k \in 1..(Len(requests) - 1) : requests[k] = "429"
    /\ sent = Some(TRUE) <=> (requests # << >> /\ requests[Len(requests)] = "200")
    /\ (Len(requests) = retry_attempts /\ retry_attempts > 0
            /\ requests[Len(requests)] = "429") => sent = Some(FALSE)
    /\ sent # None => SendFinished
    /\ t_pc = "returned" => sent # None

\* The third of three allowed requests got status 200 after two 429s.
C18_Witness ==
    /\ retry_attempts = 3
    /\ requests = <<"429", "429", "200">>
    /\ sent = Some(TRUE)

\* C19: the k-th wait follows a 429 to attempt k - 1, which is not the last
\* allowed attempt, and lasts backoff_factor ** (k - 1); successive waits never
\* decrease; there is no wait after the last allowed attempt or after an
\* outcome other than 429.
C19_ExponentialBackoff ==
    /\ \A k \in 1..Len(sleeps) :
        /\ k <= Len(requests)
        /\ requests[k] = "429"
        /\ k - 1 < retry_attempts - 1
        /\ sleeps[k] = backoff_factor ^ (k - 1)
    /\ \A k \in 1..(Len(sleeps) - 1) : sleeps[k] <= sleeps[k + 1]
    /\ t_pc \in {"loop", "returned", "done"} =>
        Len(sleeps) = Cardinality({k \in 1..Len(requests) :
                                     requests[k] = "429" /\ k < retry_attempts})

\* With the default configuration, two 429s were followed by waits of 1 and 2.
C19_Witness ==
    /\ retry_attempts = DefaultRetryAttempts
    /\ backoff_factor = DefaultBackoffFactor
    /\ sleeps = <<1, 2>>
    /\ Len(requests) = 3
    /\ requests[3] = "429"
    /\ sent = Some(FALSE)

\* The feeds of the invocation that parsed, and those that failed.
ParsedFeeds == {k \in 1..Len(feeds) : ~feeds[k].raises}

FailedFeeds == {k \in 1..Len(feeds) : feeds[k].raises}

\* The items of the feeds that parsed, in the order of the feed list.
ItemsOfParsedFeeds ==
    Concat([k \in 1..Len(feeds) |-> IF feeds[k].raises THEN << >> ELSE feeds[k].items])

\* The invocation has returned its response and the set-up had succeeded.
InvocationDone == h_pc = "done" /\ critical # Some("init")

\* The response of a finished invocation whose set-up succeeded accounts for
\* the feeds: statusCode 200, one feeds_processed per feed that parsed, the
\* items of those feeds in items_found, one error per feed that failed.
FeedsAccounted ==
    /\ \E r \in response : r.statusCode = 200 /\ r.metrics = metrics
    /\ metrics.feeds_processed = Cardinality(ParsedFeeds)
    /\ all_items = ItemsOfParsedFeeds
    /\ metrics.items_found = Len(ItemsOfParsedFeeds)
    /\ Count(metrics.errors, "feed") = Cardinality(FailedFeeds)

\* C15 as stated: feed failures leave statusCode 200 with the feeds accounted
\* for, and every found item that is not a duplicate is summarized and sent.
C15_AsStated ==
    InvocationDone =>
        /\ FeedsAccounted
        /\ metrics.items_summarized = metrics.items_found - metrics.items_deduplicated
        /\ metrics.messages_sent = metrics.items_found - metrics.items_deduplicated

\* C15: whatever feeds fail to parse, an invocation whose set-up succeeded
\* returns statusCode 200 with feeds_processed the number of feeds that parsed,
\* items_found the number of their items and one error per failing feed; every
\* found item is skipped as a duplicate, summarized, or recorded as one item
\* error, and every summarized item is sent or recorded as one send error; an
\* item that passed is_duplicate, store_item and summarize reaches send_message.
C15_FeedFailuresIsolated ==
    /\ InvocationDone =>
        /\ FeedsAccounted
        /\ metrics.items_found =
              metrics.items_deduplicated + metrics.items_summarized
                  + Count(metrics.errors, "item")
        /\ metrics.items_summarized =
              metrics.messages_sent + Count(metrics.errors, "send")
        /\ Len(metrics.errors) =
              Cardinality(FailedFeeds) + Count(metrics.errors, "item")
                  + Count(metrics.errors, "send")
    /\ (Len(ops) >= 3 /\ ops[2] = "store_item:returned" /\ ops[3] = "summarize:returned") =>
        \/ h_pc = "send"
        \/ Len(ops) = 4 /\ ops[4] \in {"send_message:True", "send_message:False"}

\* The first feed failed, the second gave two items: one was sent, the send of
\* the other failed, and the response is 200.
C15_Witness ==
    /\ InvocationDone
    /\ Len(feeds) = 2
    /\ feeds[1].raises
    /\ feeds[2].items = <<"a", "b">>
    /\ metrics.messages_sent = 1
    /\ Count(metrics.errors, "send") = 1
    /\ Count(metrics.errors, "feed") = 1
    /\ \E r \in response : r.statusCode = 200

\* The step of the item loop that checks an item whose id is in the table.
CheckOfPresentItem ==
    /\ h_pc = "items"
    /\ item_idx <= Len(all_items)
    /\ CurrentItem \in store

\* The step skips the item: it is counted in items_deduplicated, the loop moves
\* to the next item, and nothing is stored, summarized or sent.
ItemSkipped ==
    /\ metrics' = Incremented(metrics, "items_deduplicated")
    /\ item_idx' = item_idx + 1
    /\ h_pc' = "items"
    /\ store' = store
    /\ Len(ops') = 1

C20_MetricsSentOnce ==
    /\ h_pc \in {"respond", "done"} => Len(cw_calls) = 1
    /\ h_pc \notin {"respond", "done"} => cw_calls = << >>
    /\ critical \in {None, Some("init")}
    /\ (cw_calls # << >> /\ critical = None) =>
        /\ feed_idx > Len(feeds)
        /\ item_idx > Len(all_items)
    /\ (cw_calls # << >> /\ critical # None) =>
        /\ metrics.errors = <<"critical">>
        /\ all_items = << >>
    /\ h_pc = "done" =>
        response = Some([statusCode |-> IF critical = None THEN 200 ELSE 500,
                         metrics |-> metrics])

\* The one call of an invocation failed inside send_cloudwatch_metrics, and
\* the response is 200 with a message sent.
C20_Witness ==
    /\ h_pc = "done"
    /\ cw_calls = <<"failed">>
    /\ metrics.messages_sent = 1
    /\ \E r \in response : r.statusCode = 200

\* ---------------------------------------------------------------------------
\* The extractive path
\* ---------------------------------------------------------------------------

\* fallback_summarize has returned the text of a content with sentences.
FallbackRan ==
    /\ pc \in {"format_fallback", "done"}
    /\ trace # << >>
    /\ trace[1] = "fallback_summarize"
    /\ Sentences(CleanText(item.content)) # << >>

\* The bullets and the title line of the text fallback_summarize returned.
EmittedLines == LET raw == CHOOSE raw \in raw_text : TRUE IN SplitEach(raw, "\n")

EmittedTitle == EmittedLines[1]

EmittedBullets ==
    [k \in 1..TopSentenceCount |->
        SubSeq(EmittedLines[k + 1], Len(BulletPrefix) + 1, Len(EmittedLines[k + 1]))]

\* The scores of the scored sentences: the first ten, each with
\* 0.6 * (1 - index / total) + 0.4 * min(length / 100, 1).
SentenceScores(sentences) ==
    [i \in 1..(IF Len(sentences) < 10 THEN Len(sentences) ELSE 10) |->
        Score(i - 1, Len(sentences), Len(sentences[i]))]

\* Sentence a comes before sentence b in descending score order, equal scores
\* in text order.
Outranks(scores, a, b) ==
    \/ BigGreater(scores[a], scores[b])
    \/ scores[a] = scores[b] /\ a < b

\* The scored sentence that exactly k - 1 scored sentences come before.
Ranked(scores, k) ==
    CHOOSE i \in DOMAIN scores :
        Cardinality({j \in DOMAIN scores : Outranks(scores, j, i)}) = k - 1

\* C21: the bullets fallback_summarize emits are the three highest-scoring of
\* the first ten sentences, in descending score order and, for equal scores,
\* in text order; a sentence after the tenth is never a bullet.
C21_TopThreeOfFirstTen ==
    FallbackRan =>
        LET sentences == Sentences(CleanText(item.content))
            scores == SentenceScores(sentences)
        IN  \A k \in 1..TopSentenceCount :
                EmittedBullets[k] =
                    IF k <= Len(scores)
                    THEN FallbackBullet(sentences[Ranked(scores, k)])
                    ELSE FallbackPadBullet

\* A content of more than ten sentences whose eleventh would have been among
\* the three best, had it been scored.
C21_Witness ==
    /\ FallbackRan
    /\ LET sentences == Sentences(CleanText(item.content))
           scores == SentenceScores(sentences)
       IN  /\ Len(sentences) > 10
           /\ Cardinality({j \in 1..10 :
                  BigGreater(scores[j], Score(10, Len(sentences), Len(sentences[11])))}) < 3

ExtractiveSummaryReturned ==
    /\ FallbackRan
    /\ pc = "done"
    /\ returned # None

\* C30: the Summary of the extractive path has the title line and the three
\* bullets that fallback_summarize emitted.
C30_ParsingLossless ==
    ExtractiveSummaryReturned =>
        \A s \in returned :
            /\ s.title = EmittedTitle
            /\ s.bullets = EmittedBullets

\* ---------------------------------------------------------------------------
\* The why-it-matters labels
\* ---------------------------------------------------------------------------

\* str.upper()
Upper(s) ==
    [i \in 1..Len(s) |->
        IF \E j \in 1..Len(LowerChars) : LowerChars[j] = s[i]
        THEN UpperChars[CHOOSE j \in 1..Len(LowerChars) : LowerChars[j] = s[i]]
        ELSE s[i]]

\* The three labels, each in lower case, in upper case and capitalised.
WhyLabelSpellings ==
    UNION {{WhyLabels[j], Upper(WhyLabels[j]),
            Upper(SubSeq(WhyLabels[j], 1, 1)) \o Tail(WhyLabels[j])} : j \in 1..Len(WhyLabels)}

\* The lines of the raw text that follow its first non-empty line and begin
\* with a why-it-matters label.
WhyLineNumbers(raw) ==
    LET lines == SplitEach(raw, "\n")
    IN  {k \in 1..Len(lines) :
            /\ HasLabel(Strip(lines[k]), WhyLabels)
            /\ \E j \in 1..(k - 1) : Strip(lines[j]) # << >>}

\* The raw text with the label of line k replaced by another spelling.
Relabelled(raw, k, label) ==
    LET lines == SplitEach(raw, "\n")
        line == Strip(lines[k])
        old == CHOOSE j \in 1..Len(WhyLabels) : StartsWith(Lower(line), WhyLabels[j])
        rest == SubSeq(line, Len(WhyLabels[old]) + 1, Len(line))
    IN  Join([i \in 1..Len(lines) |-> IF i = k THEN label \o rest ELSE lines[i]], <<"\n">>)

\* format_summary has returned the Summary of the raw text.
FormatReturned == pc = "done" /\ caller = "format_summary" /\ returned # None

\* C23: replacing the label of a why-it-matters line by any of the three
\* labels, in lower case, upper case or capitalised, leaves the parsed
\* Summary unchanged.
C23_WhyLabelsAreSynonyms ==
    FormatReturned =>
        \A raw \in raw_text :
            \A k \in WhyLineNumbers(raw) :
                \A label \in WhyLabelSpellings :
                    Some(format_summary(Relabelled(raw, k, label))) = returned

\* A text whose why-it-matters line has a text after its label has been
\* parsed.
C23_Witness ==
    /\ FormatReturned
    /\ \E raw \in raw_text :
          \E k \in WhyLineNumbers(raw) :
              /\ Strip(SplitEach(raw, "\n")[k]) # StripLabel(Strip(SplitEach(raw, "\n")[k]), WhyLabels)
              /\ StripLabel(Strip(SplitEach(raw, "\n")[k]), WhyLabels) # << >>
              /\ \A s \in returned :
                    StartsWith(s.why_it_matters,
                               TruncateWords(StripLabel(Strip(SplitEach(raw, "\n")[k]), WhyLabels),
                                             WhyWordCap))

\* ---------------------------------------------------------------------------
\* Generation metadata
\* ---------------------------------------------------------------------------

\* summarize is returning a Summary.
SummarizeReturned == pc = "done" /\ caller = "summarize" /\ returned # None

\* The text handed to format_summary is the text the remote call returned.
ParsedFromRemoteText ==
    /\ raw_text # None
    /\ \E r \in bedrock_ret : r.text = raw_text

\* C24: the returned Summary carries the configured model id, the token count
\* and the response time of the remote call exactly when it was parsed from
\* the text the remote call returned; otherwise it is the Summary of the
\* extractive text and carries "fallback" and no token count or response time.
C24_MetadataMatchesPath ==
    SummarizeReturned =>
        \A s \in returned :
            /\ s.model_used = model_id <=> ParsedFromRemoteText
            /\ ParsedFromRemoteText =>
                  \A r \in bedrock_ret :
                      /\ s.tokens_used = r.tokens
                      /\ s.response_time_ms = r.response_time_ms
                      /\ r.response_time_ms # None
            /\ ~ParsedFromRemoteText =>
                  /\ trace[Len(trace) - 1] = "fallback_summarize"
                  /\ s.model_used = ModelUsedFallback
                  /\ s.tokens_used = None
                  /\ s.response_time_ms = None

\* A Summary parsed from a remote text is returned with a token count and a
\* response time.
C24_Witness ==
    /\ SummarizeReturned
    /\ ParsedFromRemoteText
    /\ \E s \in returned :
          /\ s.model_used = model_id
          /\ s.tokens_used # None
          /\ s.response_time_ms = Some(250)

\* ---------------------------------------------------------------------------
\* The item loop of lambda_handler
\* ---------------------------------------------------------------------------

\* The lookup of the current item has just failed with a ClientError.
LookupFailsWithClientError ==
    /\ h_pc = "items"
    /\ ops' = <<"is_duplicate:ClientError">>

\* C25: when the lookup fails with a ClientError the item goes on to
\* store_item as a new item does, with no error recorded and nothing counted
\* as a duplicate, whether or not its id is in the table; the calls that
\* follow for it are store_item, summarize and send_message, each made when
\* the one before it returned.
C25_LookupErrorMeansNew ==
    /\ [][LookupFailsWithClientError =>
             /\ h_pc' = "store"
             /\ item_idx' = item_idx
             /\ metrics' = metrics]_vars
    /\ [](ops # << >> /\ ops[1] = "is_duplicate:ClientError" =>
             /\ h_pc = "store" <=> ops = <<"is_duplicate:ClientError">>
             /\ h_pc = "summarize" <=>
                   ops = <<"is_duplicate:ClientError", "store_item:returned">>
             /\ h_pc = "send" <=>
                   ops = <<"is_duplicate:ClientError", "store_item:returned",
                           "summarize:returned">>)

\* An item whose id was in the table when the lookup failed has been stored,
\* summarized and sent.
C25_Witness ==
    /\ present = Some(TRUE)
    /\ ops = <<"is_duplicate:ClientError", "store_item:returned", "summarize:returned",
               "send_message:True">>
    /\ metrics.messages_sent > 0

\* C26: when the set-up raises, the invocation answers statusCode 500 with
\* the critical error as its only error; no feed has been fetched, no item
\* has been looked up, stored, summarized or sent, and the table is left as
\* it was.
C26_SetupFailureStopsRun ==
    /\ [](critical # None =>
             /\ feed_idx = 1
             /\ all_items = << >>
             /\ ops = << >>
             /\ present = None
             /\ metrics.feeds_processed = 0
             /\ metrics.items_found = 0
             /\ metrics.items_summarized = 0
             /\ metrics.messages_sent = 0
             /\ h_pc \in {"critical", "metrics", "respond", "done"}
             /\ h_pc \in {"metrics", "respond", "done"} => metrics.errors = <<"critical">>
             /\ \A r \in response :
                   r.statusCode = 500 /\ r.metrics.errors = <<"critical">>)
    /\ [][critical # None \/ critical' # None => store' = store]_vars

\* An invocation whose set-up raised has answered, with items in the table
\* from earlier invocations.
C26_Witness ==
    /\ critical = Some("init")
    /\ store # {}
    /\ \E r \in response : r.statusCode = 500

\* store_item has just raised for the current item.
StoreItemJustRaised ==
    /\ h_pc = "store"
    /\ ops' = Append(ops, "store_item:raised")

\* C27: send_message is called for an item only when store_item has returned
\* for it, its id being in the table; when store_item raises, the item is
\* neither summarized nor sent, one error is recorded and the loop moves on to
\* the next item.
C27_StoredBeforeSent ==
    /\ [](/\ h_pc \in {"summarize", "send"} =>
                /\ ops[2] = "store_item:returned"
                /\ CurrentItem \in store
          /\ \A k \in 1..Len(ops) :
                /\ ops[k] \in {"send_message:True", "send_message:False"} =>
                      k = 4 /\ ops[2] = "store_item:returned"
                /\ ops[k] = "store_item:raised" => k = Len(ops))
    /\ [][StoreItemJustRaised =>
             /\ metrics' = WithError(metrics, "item")
             /\ item_idx' = item_idx + 1
             /\ h_pc' = "items"
             /\ store' = store]_vars

\* store_item raised for an item that is not the last one, and the loop is
\* at the next item.
C27_Witness ==
    /\ h_pc = "items"
    /\ ops # << >>
    /\ ops[Len(ops)] = "store_item:raised"
    /\ item_idx \in 2..Len(all_items)
    /\ metrics.errors # << >>

\* The invocation stands inside the loop over all_items.
InItemLoop == h_pc \in {"items", "store", "summarize", "send"}

\* errors' is errors with zero or more errors appended.
ErrorsOnlyAppended ==
    /\ Len(metrics'.errors) >= Len(metrics.errors)
    /\ SubSeq(metrics'.errors, 1, Len(metrics.errors)) = metrics.errors

\* C29: a response with statusCode 200 carries metrics with messages_sent <=
\* items_summarized, items_deduplicated + items_summarized <= items_found and
\* as many errors as failed feeds plus found items that were neither skipped
\* as duplicates nor sent; inside the item loop no counter decreases and
\* errors are only appended.
C29_MetricsConsistent ==
    /\ [](\A r \in response :
             r.statusCode = 200 =>
                 /\ r.metrics.messages_sent <= r.metrics.items_summarized
                 /\ r.metrics.items_deduplicated + r.metrics.items_summarized
                       <= r.metrics.items_found
                 /\ Len(r.metrics.errors) =
                       Cardinality(FailedFeeds)
                         + (r.metrics.items_found - r.metrics.items_deduplicated
                              - r.metrics.messages_sent))
    /\ [][InItemLoop =>
             /\ metrics'.feeds_processed >= metrics.feeds_processed
             /\ metrics'.items_found >= metrics.items_found
             /\ metrics'.items_deduplicated >= metrics.items_deduplicated
             /\ metrics'.items_summarized >= metrics.items_summarized
             /\ metrics'.messages_sent >= metrics.messages_sent
             /\ ErrorsOnlyAppended]_vars

\* A 200 response after a failed feed, a skipped duplicate and a failed send.
C29_Witness ==
    \E r \in response :
        /\ r.statusCode = 200
        /\ FailedFeeds # {}
        /\ r.metrics.items_deduplicated > 0
        /\ r.metrics.messages_sent < r.metrics.items_summarized
        /\ Len(r.metrics.errors) >= 2

\* ---------------------------------------------------------------------------
\* Deliveries across invocations
\* ---------------------------------------------------------------------------

\* send_message is called for the current item and answers.
SendMessageCalled == h_pc = "send" /\ h_pc' = "items"

\* The item being processed is given up after store_item: summarize raised or
\* send_message returned False.
ItemGivenUp ==
    /\ h_pc \in {"summarize", "send"}
    /\ h_pc' = "items"
    /\ ops'[Len(ops')] \in {"summarize:raised", "send_message:False"}

\* C28 as stated: over invocations whose dedup reads and writes succeed, no id
\* is passed to send_message a second time, whatever the time between the
\* invocations.
C28_AsStated == [][SendMessageCalled => delivery[CurrentItem] = "never"]_vars

\* C28: over invocations whose dedup reads and writes succeed, an id is passed
\* to send_message again only after its record has expired from the table.
\* Until then the id is in the table and every item carrying it, in the same
\* invocation or a later one, is skipped; this holds as well for an item that
\* was given up because summarize raised or send_message returned False, whose
\* id is in the table when it is given up.
C28_SentOncePerRecord ==
    /\ [][SendMessageCalled => delivery[CurrentItem] # "delivered"]_vars
    /\ [](\A id \in ItemIds : delivery[id] = "delivered" => id \in store)
    /\ [](h_pc \in {"store", "summarize", "send"} =>
              present = Some(FALSE) /\ ops[1] = "is_duplicate:answered")
    /\ [][ItemGivenUp => CurrentItem \in store /\ store' = store]_vars
    /\ [][store \subseteq store' \/ \E id \in ItemIds : ExpireItem(id)]_vars

\* A later invocation lists two ids again: the one whose record is still in
\* the table has been skipped, and the one whose record expired after its
\* delivery is about to be passed to send_message a second time.
C28_Witness ==
    /\ h_pc = "send"
    /\ delivery[CurrentItem] = "expired"
    /\ metrics.items_deduplicated > 0
    /\ \E k \in 1..(item_idx - 1) :
           delivery[all_items[k]] = "delivered" /\ all_items[k] # CurrentItem

====
